---- MODULE Spec2Model ----
(***************************************************************************)
(* Model of the NABH SOP content pipeline: the RecentSOPsPage component    *)
(* (both revisions kept in the repository), the SOP / document-level       *)
(* storage services and the document extraction service.                   *)
(*                                                                         *)
(* Text is modelled as a sequence of characters (one-character strings).   *)
(* A fixed literal of the code (a header, a message) is one token of the   *)
(* sequence, so that two different literals are two different values.      *)
(***************************************************************************)
EXTENDS Integers, Sequences, FiniteSets, TLC

(***************************************************************************)
(* Bounds of the model.                                                    *)
(***************************************************************************)
MaxLen == 2
MaxImprovements == 12
MaxUpdates == 2
MaxCodeLen == 3
MaxRequests == 1
MaxIds == 2

(***************************************************************************)
(* Text helpers.                                                           *)
(***************************************************************************)
Empty == << >>

\* Characters a field of the page may hold: a letter, a blank and a newline.
Char == {"x", " ", "\n"}

\* String.prototype.trim strips these from both ends.
WS == {" ", "\n"}

RECURSIVE StrUpTo(_, _)
StrUpTo(chars, n) ==
  IF n = 0 THEN {Empty}
  ELSE LET shorter == StrUpTo(chars, n - 1)
       IN  shorter \cup {Append(s, c) : s \in shorter, c \in chars}

Text == StrUpTo(Char, MaxLen)

RECURSIVE TrimStart(_)
TrimStart(s) ==
  IF s # Empty /\ Head(s) \in WS THEN TrimStart(Tail(s)) ELSE s

RECURSIVE TrimEnd(_)
TrimEnd(s) ==
  IF s # Empty /\ s[Len(s)] \in WS THEN TrimEnd(SubSeq(s, 1, Len(s) - 1)) ELSE s

Trim(s) == TrimEnd(TrimStart(s))

(***************************************************************************)
(* State.                                                                  *)
(***************************************************************************)
VARIABLES
  \* RecentSOPsPage: which of the two revisions of the page runs.
  variant,
  \* RecentSOPsPage: component state (useState).
  selectedChapterId, selectedChapterCode, selectedObjective,
  oldSOPText, objectiveTitle, interpretation, filteredContent, mergedContent,
  finalSOP, directEditContent,
  currentVersion, sopVersions, showImprovementChat,
  isSaving, generatingSOP, aiImproving,
  snackbar,
  \* asynchronous handlers waiting for a response, with the values they captured
  pending,
  \* the handler that ran last
  lastOp,
  \* backend tables: nabh_chapter_data, nabh_sop_documents, nabh_document_levels
  chapterData, sopStore, levelStore, nextId,
  \* storage services: the function called last and what it gave back
  gwCall, gwResult,
  \* extraction service: its revision, the credential, the function called
  \* last, the requests issued, the result given back
  extractorRev, apiKey, adCall, netLog, adResult,
  \* RecentSOPsPage: the chapter whose objectives are listed, the remaining
  \* busy flags, the stored SOP found for the selected objective; backend
  \* table nabh_generated_sops
  objectives, extractingOldSOP, filteringContent, existingSOP, generatedSops,
  \* the browser: the instant new Date() gives and the time zone it renders in
  clock, timeZone,
  \* DocumentLevelsPage: the tab, the rows loaded for it, the busy flag and the
  \* pagination of the table
  tabValue, documents, isLoading, page, rowsPerPage

pageFields ==
  << variant, selectedChapterId, selectedChapterCode, selectedObjective,
     oldSOPText, objectiveTitle, interpretation, filteredContent, mergedContent,
     finalSOP, directEditContent, currentVersion, sopVersions,
     showImprovementChat, isSaving, generatingSOP, aiImproving, snackbar,
     pending >>

pageVars == << pageFields, lastOp >>

storeVars == << chapterData, sopStore, levelStore, nextId >>

gwVars == << gwCall, gwResult >>

adVars == << extractorRev, apiKey, adCall, netLog, adResult >>

levelVars == << tabValue, documents, isLoading, page, rowsPerPage >>

\* what lies outside the SOP page
envVars == << clock, timeZone, levelVars >>

stageVars == << objectives, extractingOldSOP, filteringContent, existingSOP, generatedSops >>

vars == << pageVars, storeVars, gwVars, adVars, envVars, stageVars >>

Variants == {"legacy", "f7"}

None == "none"

\* showSnackbar(message, severity)
Snack(message, severity) == [message |-> message, severity |-> severity]

\* useState defaults of the page, in groups
NoSelection ==
  selectedChapterId = "" /\ selectedChapterCode = Empty /\ selectedObjective = Empty

NoStageOutput ==
  /\ oldSOPText = Empty /\ filteredContent = Empty /\ mergedContent = Empty
  /\ finalSOP = Empty /\ directEditContent = Empty

NoObjectiveText == objectiveTitle = Empty /\ interpretation = Empty

FirstVersion ==
  /\ currentVersion = <<"1", ".", "0">> /\ sopVersions = << >>
  /\ showImprovementChat = FALSE

Idle ==
  /\ isSaving = FALSE /\ generatingSOP = FALSE /\ aiImproving = FALSE
  /\ snackbar = Snack("", "success")
  /\ pending = {}
  /\ lastOp = None

StoreInit == chapterData = {} /\ sopStore = {} /\ levelStore = {} /\ nextId = 1

GwInit == gwCall = [fn |-> None] /\ gwResult = [kind |-> None]

\* the instant is counted in half hours from 1 January 2023, 00:00 UTC
TicksPerDay == 48

\* useState defaults of DocumentLevelsPage, opened without a level parameter
LevelInit ==
  /\ tabValue = 0 /\ documents = << >> /\ isLoading = FALSE
  /\ page = 0 /\ rowsPerPage = 10

EnvInit == clock = 500 * TicksPerDay /\ timeZone = "Asia/Kolkata" /\ LevelInit

\* useState defaults of the remaining flags; existingSOP holds no row or one
StageInit ==
  /\ objectives = Empty
  /\ extractingOldSOP = FALSE /\ filteringContent = FALSE
  /\ existingSOP = {} /\ generatedSops = {}

\* the two revisions of documentExtractor.ts kept in the repository
ExtractorRevs == {"v1", "v2"}

AdIdle ==
  /\ adCall = [fn |-> None]
  /\ netLog = << >>
  /\ adResult = [kind |-> None]

AdInit == extractorRev = "v2" /\ apiKey = TRUE /\ AdIdle

(***************************************************************************)
(* F6: merge.                                                              *)
(***************************************************************************)
HdrTitle == "=== TITLE (F3) ==="

HdrInterpretation == "=== INTERPRETATION (F4) ==="

HdrFiltered == "=== FILTERED RELEVANT CONTENT (F5) ==="

Headers == {HdrTitle, HdrInterpretation, HdrFiltered}

\* a plausible slip: the interpretation section is emitted without its guard
MergedTextNoGuard(t, i, f) ==
  (IF t # Empty THEN <<HdrTitle, "\n">> \o t \o <<"\n", "\n">> ELSE Empty)
    \o (<<HdrInterpretation, "\n">> \o i \o <<"\n", "\n">>)
    \o (IF f # Empty THEN <<HdrFiltered, "\n">> \o f \o <<"\n">> ELSE Empty)

\* a plausible slip: sections separated by a single newline
MergedTextOneNewline(t, i, f) ==
  (IF t # Empty THEN <<HdrTitle, "\n">> \o t \o <<"\n">> ELSE Empty)
    \o (IF i # Empty THEN <<HdrInterpretation, "\n">> \o i \o <<"\n">> ELSE Empty)
    \o (IF f # Empty THEN <<HdrFiltered, "\n">> \o f \o <<"\n">> ELSE Empty)

\* the local `merged` of handleMergeAll, before trim()
MergedText(t, i, f) ==
  (IF t # Empty THEN <<HdrTitle, "\n">> \o t \o <<"\n", "\n">> ELSE Empty)
    \o (IF i # Empty THEN <<HdrInterpretation, "\n">> \o i \o <<"\n", "\n">> ELSE Empty)
    \o (IF f # Empty THEN <<HdrFiltered, "\n">> \o f \o <<"\n">> ELSE Empty)

HandleMergeAll ==
  LET merged == MergedText(objectiveTitle, interpretation, filteredContent)
  IN  /\ IF merged # Empty
           THEN /\ mergedContent' = Trim(merged)
                /\ snackbar' = Snack("All content merged!", "success")
           ELSE /\ mergedContent' = mergedContent
                /\ snackbar' = Snack("No content to merge", "error")
      /\ lastOp' = "mergeAll"
      /\ UNCHANGED << variant, selectedChapterId, selectedChapterCode,
                      selectedObjective, oldSOPText, objectiveTitle,
                      interpretation, filteredContent, finalSOP,
                      directEditContent, currentVersion, sopVersions,
                      showImprovementChat, isSaving, generatingSOP, aiImproving,
                      pending >>
      /\ UNCHANGED << storeVars, gwVars, envVars, stageVars, adVars >>

\* The page with an objective's title and interpretation loaded and a filtered
\* text present (each possibly empty), before Merge is pressed.
InitMerge ==
  /\ variant \in Variants
  /\ NoSelection /\ FirstVersion /\ Idle
  /\ oldSOPText = Empty /\ mergedContent = Empty
  /\ finalSOP = Empty /\ directEditContent = Empty
  /\ objectiveTitle \in Text /\ interpretation \in Text /\ filteredContent \in Text
  /\ StoreInit /\ GwInit /\ EnvInit /\ StageInit /\ AdInit

NextMerge == HandleMergeAll

SpecMerge == InitMerge /\ [][NextMerge]_vars

\* the headers of a text, in the order they appear
HeadersOf(s) == SelectSeq(s, LAMBDA c : c \in Headers)

\* the letters of a text: neither headers nor white space
LettersOf(s) == SelectSeq(s, LAMBDA c : c \notin Headers /\ c \notin WS)

AllThreePresent ==
  objectiveTitle # Empty /\ interpretation # Empty /\ filteredContent # Empty

\* C1 as stated: with title T, interpretation I and filtered text F all
\* non-empty, merge sets mergedContent to "=== TITLE ===\nT\n\n===
\* INTERPRETATION ===\nI\n\n=== FILTERED CONTENT ===\nF", trimmed.
C1_MergeFormatAsClaimed ==
  (lastOp = "mergeAll" /\ AllThreePresent) =>
    mergedContent =
      Trim(<<"=== TITLE ===", "\n">> \o objectiveTitle
           \o <<"\n", "\n", "=== INTERPRETATION ===", "\n">> \o interpretation
           \o <<"\n", "\n", "=== FILTERED CONTENT ===", "\n">> \o filteredContent)

\* C1 amended: the same layout, one blank line between the sections and the
\* whole trimmed, but the three headers are "=== TITLE (F3) ===",
\* "=== INTERPRETATION (F4) ===" and "=== FILTERED RELEVANT CONTENT (F5) ===".
C1_MergeFormat ==
  (lastOp = "mergeAll" /\ AllThreePresent) =>
    mergedContent =
      Trim(<<"=== TITLE (F3) ===", "\n">> \o objectiveTitle
           \o <<"\n", "\n", "=== INTERPRETATION (F4) ===", "\n">> \o interpretation
           \o <<"\n", "\n", "=== FILTERED RELEVANT CONTENT (F5) ===", "\n">>
           \o filteredContent)

\* a merge of three non-empty fragments, one of them ending in white space
C1_Witness ==
  /\ lastOp = "mergeAll" /\ AllThreePresent
  /\ filteredContent[Len(filteredContent)] \in WS
  /\ mergedContent # Empty

\* C2: after a merge the output holds the header of a fragment exactly when
\* that fragment is non-empty, the headers come in the order title,
\* interpretation, filtered content, and the letters of the output are those
\* of the fragments in that order: an empty fragment adds nothing.
C2_MergeSections ==
  lastOp = "mergeAll" =>
    /\ HeadersOf(mergedContent) =
         (IF objectiveTitle # Empty THEN <<HdrTitle>> ELSE << >>)
           \o (IF interpretation # Empty THEN <<HdrInterpretation>> ELSE << >>)
           \o (IF filteredContent # Empty THEN <<HdrFiltered>> ELSE << >>)
    /\ LettersOf(mergedContent) =
         LettersOf(objectiveTitle) \o LettersOf(interpretation)
           \o LettersOf(filteredContent)

\* a merge with the interpretation empty and the other two fragments present
C2_Witness ==
  /\ lastOp = "mergeAll"
  /\ interpretation = Empty /\ objectiveTitle # Empty /\ filteredContent # Empty
  /\ HeadersOf(mergedContent) = <<HdrTitle, HdrFiltered>>

(***************************************************************************)
(* Improvement: the chat (handleSOPUpdate) and the F7 editor.              *)
(***************************************************************************)
\* HTML a generation or the improvement chat may hand to the page
Html == {<<"<p>", "x">>, <<"<p>", "x", "x">>}

\* what the model endpoint may answer to "AI Improve": nothing, plain HTML,
\* HTML in a fenced block
\* the two fenced-code markers of markdown: three backquotes followed by
\* "html", and three backquotes alone
FenceHtml == "[fence]html"

Fence == "[fence]"

ImproveAnswers ==
  {Empty, <<"<p>", "y">>, <<FenceHtml, "\n", "<p>", "y", "\n", Fence>>}

\* a call that rejects instead of answering
Throws == <<"[throws]">>

Digits == <<"0", "1", "2", "3", "4", "5", "6", "7", "8", "9">>

IsDigit(c) == \E k \in 1..10 : Digits[k] = c

DigitVal(c) == (CHOOSE k \in 1..10 : Digits[k] = c) - 1

\* NaN, for a version string that does not start with a number
NaN == -1

RECURSIVE DigitsToInt(_)
DigitsToInt(s) ==
  IF s = Empty THEN 0
  ELSE 10 * DigitsToInt(SubSeq(s, 1, Len(s) - 1)) + DigitVal(s[Len(s)])

RECURSIVE DigitPrefix(_)
DigitPrefix(s) ==
  IF s # Empty /\ IsDigit(Head(s)) THEN <<Head(s)>> \o DigitPrefix(Tail(s))
  ELSE Empty

\* parseFloat(s), in tenths: the leading digits, then an optional "." and
\* digit. The versions of the page have one decimal; the binary rounding
\* error of x + 0.1 is far below the 0.05 that toFixed(1) rounds away.
ParseFloat(s) ==
  LET int == DigitPrefix(s)
      rest == SubSeq(s, Len(int) + 1, Len(s))
  IN  IF int = Empty THEN NaN
      ELSE IF Len(rest) >= 2 /\ rest[1] = "." /\ IsDigit(rest[2])
           THEN 10 * DigitsToInt(int) + DigitVal(rest[2])
           ELSE 10 * DigitsToInt(int)

RECURSIVE IntToStr(_)
IntToStr(n) ==
  IF n < 10 THEN <<Digits[n + 1]>>
  ELSE IntToStr(n \div 10) \o <<Digits[(n % 10) + 1]>>

\* (x).toFixed(1) of a number given in tenths
ToFixed1(t) ==
  IF t = NaN THEN <<"N", "a", "N">>
  ELSE IntToStr(t \div 10) \o <<".">> \o <<Digits[(t % 10) + 1]>>

\* x + 0.1, in tenths
PlusTenth(t) == IF t = NaN THEN NaN ELSE t + 1

\* a plausible slip: the minor digit is bumped without carrying into the major
NewVersionNumberNoCarry(version) ==
  LET t == ParseFloat(version)
  IN  ToFixed1(10 * (t \div 10) + ((t + 1) % 10))

\* (parseFloat(currentVersion) + 0.1).toFixed(1)
NewVersionNumber(version) == ToFixed1(PlusTenth(ParseFloat(version)))

\* a version of the in-memory history (its id and timestamp are set from the clock)
VersionEntry(version, content) == [version |-> version, content |-> content]

\* "Improve SOP" button
HandleStartImprovement ==
  /\ finalSOP # Empty
  /\ sopVersions' =
       IF Len(sopVersions) = 0
         THEN <<VersionEntry(<<"1", ".", "0">>, finalSOP)>>
         ELSE sopVersions
  /\ showImprovementChat' = TRUE
  /\ lastOp' = "startImprovement"
  /\ UNCHANGED << variant, selectedChapterId, selectedChapterCode,
                  selectedObjective, oldSOPText, objectiveTitle, interpretation,
                  filteredContent, mergedContent, finalSOP, directEditContent,
                  currentVersion, isSaving, generatingSOP, aiImproving,
                  snackbar, pending >>
  /\ UNCHANGED << storeVars, gwVars, envVars, stageVars, adVars >>

\* "Close Chat" button
CloseChat ==
  /\ showImprovementChat /\ finalSOP # Empty
  /\ showImprovementChat' = FALSE
  /\ lastOp' = "closeChat"
  /\ UNCHANGED << variant, selectedChapterId, selectedChapterCode,
                  selectedObjective, oldSOPText, objectiveTitle, interpretation,
                  filteredContent, mergedContent, finalSOP, directEditContent,
                  currentVersion, sopVersions, isSaving, generatingSOP,
                  aiImproving, snackbar, pending >>
  /\ UNCHANGED << storeVars, gwVars, envVars, stageVars, adVars >>

\* a plausible slip: the history is not extended
SOPUpdateNoHistory(updatedSOP) ==
  /\ sopVersions' = sopVersions
  /\ currentVersion' = NewVersionNumber(currentVersion)
  /\ finalSOP' = updatedSOP
  /\ directEditContent' = IF variant = "f7" THEN updatedSOP ELSE directEditContent
  /\ snackbar' = Snack("SOP updated to version", "success")

\* a slip: the chat update leaves the F7 editor as it was
SOPUpdateNoSync(updatedSOP) ==
  LET newVersionNumber == NewVersionNumber(currentVersion)
  IN  /\ sopVersions' = Append(sopVersions, VersionEntry(newVersionNumber, updatedSOP))
      /\ currentVersion' = newVersionNumber
      /\ finalSOP' = updatedSOP
      /\ directEditContent' = directEditContent
      /\ snackbar' = Snack("SOP updated to version", "success")

\* the state changes of handleSOPUpdate(updatedSOP)
SOPUpdate(updatedSOP) ==
  LET newVersionNumber == NewVersionNumber(currentVersion)
  IN  /\ sopVersions' = Append(sopVersions, VersionEntry(newVersionNumber, updatedSOP))
      /\ currentVersion' = newVersionNumber
      /\ finalSOP' = updatedSOP
      /\ directEditContent' = IF variant = "f7" THEN updatedSOP ELSE directEditContent
      /\ snackbar' = Snack("SOP updated to version", "success")

\* a plausible revision: every accepted improvement is written to the backend
HandleSOPUpdateSaving(updatedSOP, bound) ==
  /\ showImprovementChat /\ finalSOP # Empty
  /\ Len(sopVersions) <= bound
  /\ SOPUpdate(updatedSOP)
  /\ chapterData' = chapterData \cup {[content |-> updatedSOP]}
  /\ lastOp' = "sopUpdate"
  /\ UNCHANGED << variant, selectedChapterId, selectedChapterCode,
                  selectedObjective, oldSOPText, objectiveTitle, interpretation,
                  filteredContent, mergedContent, showImprovementChat,
                  isSaving, generatingSOP, aiImproving, pending >>
  /\ UNCHANGED << sopStore, levelStore, nextId, gwVars, envVars, stageVars, adVars >>

\* SOPImprovementChat calls onSOPUpdate; the chat is mounted while
\* showImprovementChat && finalSOP
HandleSOPUpdate(updatedSOP, bound) ==
  /\ showImprovementChat /\ finalSOP # Empty
  /\ Len(sopVersions) <= bound
  /\ SOPUpdate(updatedSOP)
  /\ lastOp' = "sopUpdate"
  /\ UNCHANGED << variant, selectedChapterId, selectedChapterCode,
                  selectedObjective, oldSOPText, objectiveTitle, interpretation,
                  filteredContent, mergedContent, showImprovementChat,
                  isSaving, generatingSOP, aiImproving, pending >>
  /\ UNCHANGED << storeVars, gwVars, envVars, stageVars, adVars >>

\* The page right after a generation: a final SOP at version 1.0.
InitGenerated ==
  /\ variant \in Variants
  /\ NoSelection /\ NoObjectiveText /\ FirstVersion /\ Idle
  /\ oldSOPText = Empty /\ filteredContent = Empty /\ mergedContent = Empty
  /\ finalSOP \in Html
  /\ directEditContent = IF variant = "f7" THEN finalSOP ELSE Empty
  /\ StoreInit /\ GwInit /\ EnvInit /\ StageInit /\ AdInit

NextVersion ==
  \/ HandleStartImprovement
  \/ CloseChat
  \/ \E u \in Html : HandleSOPUpdate(u, MaxImprovements)

SpecVersion == InitGenerated /\ [][NextVersion]_vars

\* the version strings 1.0, 1.1, ... in order
ExpectedVersions ==
  << <<"1", ".", "0">>, <<"1", ".", "1">>, <<"1", ".", "2">>, <<"1", ".", "3">>,
     <<"1", ".", "4">>, <<"1", ".", "5">>, <<"1", ".", "6">>, <<"1", ".", "7">>,
     <<"1", ".", "8">>, <<"1", ".", "9">>, <<"2", ".", "0">>, <<"2", ".", "1">>,
     <<"2", ".", "2">>, <<"2", ".", "3">>, <<"2", ".", "4">>, <<"2", ".", "5">> >>

\* C4: from version "1.0", the n-th accepted chat improvement yields the
\* decimal 1.0 + n/10 with one decimal place: the history reads 1.0, 1.1, ...
\* with no value skipped or repeated, 1.9 is followed by 2.0, and the current
\* version is the last of them.
C4_VersionIncrement ==
  /\ \A k \in 1..Len(sopVersions) : sopVersions[k].version = ExpectedVersions[k]
  /\ currentVersion =
       IF Len(sopVersions) = 0 THEN <<"1", ".", "0">>
       ELSE ExpectedVersions[Len(sopVersions)]

\* the improvement that takes 1.9 to 2.0 has happened
C4_Witness ==
  /\ lastOp = "sopUpdate"
  /\ Len(sopVersions) = 11
  /\ currentVersion = <<"2", ".", "0">>

(***************************************************************************)
(* F7: direct content editor (revision with the editor only).              *)
(***************************************************************************)
\* what the user may type into the F7 textarea
EditTexts == Html \cup {Empty, <<"<p>", "z">>}

\* .replace(/[fence]html/g, '').replace(/[fence]/g, '').trim()
StripFences(s) == Trim(SelectSeq(s, LAMBDA c : c \notin {FenceHtml, Fence}))

\* F7 textarea onChange
F7Change(text) ==
  /\ variant = "f7"
  /\ text # directEditContent
  /\ directEditContent' = text
  /\ lastOp' = "f7Change"
  /\ UNCHANGED << variant, selectedChapterId, selectedChapterCode,
                  selectedObjective, oldSOPText, objectiveTitle, interpretation,
                  filteredContent, mergedContent, finalSOP, currentVersion,
                  sopVersions, showImprovementChat, isSaving, generatingSOP,
                  aiImproving, snackbar, pending >>
  /\ UNCHANGED << storeVars, gwVars, envVars, stageVars, adVars >>

\* F7 textarea onBlur: auto-sync to the preview
F7Blur ==
  /\ variant = "f7"
  /\ directEditContent # Empty /\ directEditContent # finalSOP
  /\ finalSOP' = directEditContent
  /\ snackbar' = Snack("Content auto-synced to preview!", "success")
  /\ lastOp' = "f7Blur"
  /\ UNCHANGED << variant, selectedChapterId, selectedChapterCode,
                  selectedObjective, oldSOPText, objectiveTitle, interpretation,
                  filteredContent, mergedContent, directEditContent,
                  currentVersion, sopVersions, showImprovementChat, isSaving,
                  generatingSOP, aiImproving, pending >>
  /\ UNCHANGED << storeVars, gwVars, envVars, stageVars, adVars >>

\* "AI Improve" onClick, up to the await of callGeminiAPI
AIImproveClick ==
  /\ variant = "f7"
  /\ directEditContent # Empty /\ ~aiImproving
  /\ aiImproving' = TRUE
  /\ pending' = pending \cup {[op |-> "aiImprove", content |-> directEditContent]}
  /\ lastOp' = "aiImproveClick"
  /\ UNCHANGED << variant, selectedChapterId, selectedChapterCode,
                  selectedObjective, oldSOPText, objectiveTitle, interpretation,
                  filteredContent, mergedContent, finalSOP, directEditContent,
                  currentVersion, sopVersions, showImprovementChat, isSaving,
                  generatingSOP, snackbar >>
  /\ UNCHANGED << storeVars, gwVars, envVars, stageVars, adVars >>

\* a plausible revision: an accepted AI improvement goes through handleSOPUpdate
AIImproveAcceptVersioned(improvedContent) ==
  SOPUpdate(StripFences(improvedContent))

\* "AI Improve": the branch that accepts a non-empty answer
AIImproveAccept(improvedContent) ==
  /\ directEditContent' = StripFences(improvedContent)
  /\ finalSOP' = StripFences(improvedContent)
  /\ snackbar' = Snack("Content improved by AI!", "success")
  /\ UNCHANGED << currentVersion, sopVersions >>

\* "AI Improve" onClick, from the answer of callGeminiAPI on
AIImproveDone(req, answer) ==
  /\ req \in pending /\ req.op = "aiImprove"
  /\ pending' = pending \ {req}
  /\ IF answer = Throws
       THEN /\ snackbar' = Snack("Failed to improve content with AI", "error")
            /\ lastOp' = "aiImproveFailed"
            /\ UNCHANGED << finalSOP, directEditContent, currentVersion, sopVersions >>
       ELSE IF answer # Empty
         THEN /\ AIImproveAccept(answer)
              /\ lastOp' = "aiImproveApplied"
         ELSE /\ snackbar' = Snack("AI did not return improved content", "error")
              /\ lastOp' = "aiImproveFailed"
              /\ UNCHANGED << finalSOP, directEditContent, currentVersion, sopVersions >>
  /\ aiImproving' = FALSE
  /\ UNCHANGED << variant, selectedChapterId, selectedChapterCode,
                  selectedObjective, oldSOPText, objectiveTitle, interpretation,
                  filteredContent, mergedContent, showImprovementChat, isSaving,
                  generatingSOP >>
  /\ UNCHANGED << storeVars, gwVars, envVars, stageVars, adVars >>

NextImprove ==
  \/ HandleStartImprovement
  \/ CloseChat
  \/ \E u \in Html : HandleSOPUpdate(u, MaxUpdates)
  \/ \E text \in EditTexts : F7Change(text)
  \/ F7Blur
  \/ AIImproveClick
  \/ \E req \in pending, answer \in ImproveAnswers \cup {Throws} :
       AIImproveDone(req, answer)

SpecImprove == InitGenerated /\ [][NextImprove]_vars

\* the position of a version string in 1.0, 1.1, ...
VersionIndex(v) == CHOOSE k \in 1..Len(ExpectedVersions) : ExpectedVersions[k] = v

\* the step bumps the version by 0.1 and appends exactly one history entry
\* holding the new version and the new final SOP
NewVersionStep ==
  /\ currentVersion' = ExpectedVersions[VersionIndex(currentVersion) + 1]
  /\ sopVersions' = Append(sopVersions, VersionEntry(currentVersion', finalSOP'))

\* C5 as stated: every accepted improvement, chat-driven or by the F7
\* "AI Improve" button, increments currentVersion by 0.1 and appends exactly
\* one history entry with the new version and the new final SOP.
C5_EveryImprovementVersionsAsClaimed ==
  [][lastOp' \in {"sopUpdate", "aiImproveApplied"} => NewVersionStep]_vars

\* C5 amended: every accepted chat-driven improvement (handleSOPUpdate)
\* increments currentVersion by 0.1 and appends exactly one history entry with
\* the new version and the new final SOP; an accepted "AI Improve" replaces
\* finalSOP and the F7 content and leaves the version and the history as
\* they were.
C5_ChatImprovementVersions ==
  [][/\ lastOp' = "sopUpdate" => NewVersionStep
     /\ lastOp' = "aiImproveApplied" =>
          /\ finalSOP' = directEditContent'
          /\ UNCHANGED << currentVersion, sopVersions >>]_vars

\* an AI improvement was accepted after a chat improvement had made version 1.1
C5_Witness ==
  /\ lastOp = "aiImproveApplied"
  /\ Len(sopVersions) = 2
  /\ currentVersion = <<"1", ".", "1">>
  /\ finalSOP # sopVersions[2].content

(***************************************************************************)
(* Dates: new Date(), millisecond arithmetic, toLocaleDateString('en-GB').  *)
(***************************************************************************)
EpochYear == 2023

IsLeap(y) == (y % 4 = 0 /\ y % 100 # 0) \/ y % 400 = 0

DaysInYear(y) == IF IsLeap(y) THEN 366 ELSE 365

DaysInMonth(y, mo) ==
  IF mo = 2 THEN (IF IsLeap(y) THEN 29 ELSE 28)
  ELSE IF mo \in {4, 6, 9, 11} THEN 30 ELSE 31

\* day number (0 = 1 January of the epoch year) of a calendar date
RECURSIVE DaysBeforeYear(_)
DaysBeforeYear(y) ==
  IF y = EpochYear THEN 0 ELSE DaysBeforeYear(y - 1) + DaysInYear(y - 1)

RECURSIVE DaysBeforeMonth(_, _)
DaysBeforeMonth(y, mo) ==
  IF mo = 1 THEN 0 ELSE DaysBeforeMonth(y, mo - 1) + DaysInMonth(y, mo - 1)

DayNumber(y, mo, d) == DaysBeforeYear(y) + DaysBeforeMonth(y, mo) + (d - 1)

\* calendar date of a day number
RECURSIVE MonthFrom(_, _, _)
MonthFrom(n, y, mo) ==
  IF n < DaysInMonth(y, mo) THEN [year |-> y, month |-> mo, day |-> n + 1]
  ELSE MonthFrom(n - DaysInMonth(y, mo), y, mo + 1)

RECURSIVE CivilFrom(_, _)
CivilFrom(n, y) ==
  IF n < DaysInYear(y) THEN MonthFrom(n, y, 1)
  ELSE CivilFrom(n - DaysInYear(y), y + 1)

Civil(n) == CivilFrom(n, EpochYear)

\* time zones of the browser: one without and one with daylight saving time
TimeZones == {"Asia/Kolkata", "Europe/London"}

\* British Summer Time: from 01:00 UTC on the last Sunday of March to 01:00
\* UTC on the last Sunday of October
SummerTime(t) ==
  \E span \in { <<DayNumber(2023, 3, 26), DayNumber(2023, 10, 29)>>,
                <<DayNumber(2024, 3, 31), DayNumber(2024, 10, 27)>>,
                <<DayNumber(2025, 3, 30), DayNumber(2025, 10, 26)>> } :
    /\ span[1] * TicksPerDay + 2 <= t
    /\ t < span[2] * TicksPerDay + 2

\* offset from UTC, in half hours, of the local time at instant t
UtcOffset(zone, t) ==
  IF zone = "Asia/Kolkata" THEN 11
  ELSE IF SummerTime(t) THEN 2 ELSE 0

\* day number of the local calendar date at instant t
LocalDay(zone, t) == (t + UtcOffset(zone, t)) \div TicksPerDay

MonthShort ==
  << "Jan", "Feb", "Mar", "Apr", "May", "Jun",
     "Jul", "Aug", "Sep", "Oct", "Nov", "Dec" >>

TwoDigits(n) == <<Digits[(n \div 10) + 1], Digits[(n % 10) + 1]>>

\* the rendering of a calendar day: two-digit day, short month, year
RenderDay(n) ==
  LET c == Civil(n)
  IN  TwoDigits(c.day) \o <<" ", MonthShort[c.month], " ">> \o IntToStr(c.year)

\* formatDate(d): d.toLocaleDateString('en-GB', {day: '2-digit', month: 'short', year: 'numeric'})
FormatDate(zone, t) == RenderDay(LocalDay(zone, t))

\* new Date(today.getTime() - 30 * 24 * 60 * 60 * 1000)
EffectiveDate(t) == t - 30 * TicksPerDay

\* new Date(today.getTime() + 365 * 24 * 60 * 60 * 1000)
ReviewDate(t) == t + 365 * TicksPerDay

NoDate == <<"[no date]">>

(***************************************************************************)
(* Generation: generateSOPFromContent and handleGenerateSOP.               *)
(***************************************************************************)
\* chapter codes: the match of /^[A-Z]{3}/ on the chapter name, or ''
ChapterCodes == {<<"A", "A", "C">>, <<"C", "O", "P">>, Empty}

\* objective codes as they come from the objectives table
ObjectiveCodes == StrUpTo({"4", ".", "C"}, MaxCodeLen)

\* a plausible slip: replace('.', '-') replaces the first dot only
RECURSIVE ReplaceFirstDot(_)
ReplaceFirstDot(code) ==
  IF code = Empty THEN Empty
  ELSE IF Head(code) = "." THEN <<"-">> \o Tail(code)
  ELSE <<Head(code)>> \o ReplaceFirstDot(Tail(code))

\* objectiveCode.replace(/\./g, '-')
ReplaceDots(code) == [k \in 1..Len(code) |-> IF code[k] = "." THEN "-" ELSE code[k]]

\* const docNo = `SOP-${chapterCode}-${objectiveCode ? ... : '001'}`
DocNo(chapterCode, objectiveCode) ==
  <<"SOP-">> \o chapterCode \o <<"-">>
    \o (IF objectiveCode # Empty THEN ReplaceDots(objectiveCode) ELSE <<"0", "0", "1">>)

\* the older revision of the service builds a prompt without a document number
NoDocNo == <<"[no document number]">>

Doctype == "<!DOCTYPE html>"

FenceHtmlUpper == "[fence]HTML"

\* answers of the model endpoint to a generation request: no text, a full
\* document, the same in a fenced block (lower and upper case tag), a fragment
\* without doctype, and an answer carrying an error object
ApiError == <<"[error object]">>

GenAnswers ==
  { Empty,
    <<Doctype, "\n", "<p>", "x">>,
    <<"<!doctype html>", "\n", "<p>", "x">>,
    <<FenceHtml, "\n", Doctype, "\n", "<p>", "x", "\n", Fence>>,
    <<FenceHtmlUpper, "\n", Doctype, "\n", "<p>", "x", "\n", Fence>>,
    <<" ", "<p>", "x">>,
    ApiError }

\* sop.toLowerCase().startsWith('<!doctype')
StartsWithDoctype(s) == s # Empty /\ Head(s) \in {Doctype, "<!doctype html>"}

\* the fence clean-up of generateSOPFromContent: /[fence]html/g in the older
\* revision (the upper-case tag keeps its letters), /[fence]html/gi in the later
RECURSIVE CleanFences(_, _)
CleanFences(rev, s) ==
  IF s = Empty THEN Empty
  ELSE LET c == Head(s)
           rest == CleanFences(rev, Tail(s))
       IN  IF c \in {FenceHtml, Fence} THEN rest
           ELSE IF c = FenceHtmlUpper
                  THEN (IF rev = "v1" THEN <<"HTML">> \o rest ELSE rest)
                  ELSE <<c>> \o rest

\* the post-processing of the answer text
PostProcess(rev, text) ==
  LET sop == Trim(CleanFences(rev, text))
  IN  IF rev = "v2" /\ ~StartsWithDoctype(sop)
        THEN <<Doctype, "\n", "<html lang=\"en\">", "\n">> \o sop
        ELSE sop

GenResult(success, sop, error) ==
  [kind |-> "returned", success |-> success, sop |-> sop, error |-> error]

\* a call that ends in an exception instead of a result
Threw(error) == [kind |-> "threw", error |-> error]

\* getGeminiApiKey(): the configured key or nothing. The later revision of the
\* service calls it without importing it, so there the name may also be unbound.
KeyLookups ==
  {IF apiKey THEN "key" ELSE "none"}
    \cup (IF extractorRev = "v2" THEN {"unbound"} ELSE {})

UnboundMessage == "getGeminiApiKey is not defined"

\* a request to the generative model endpoint
ModelRequest(fn) == [to |-> "gemini", fn |-> fn, docNo |-> NoDocNo]

\* the request generateSOPFromContent posts to the model endpoint
GenerateRequest(rev, chapterCode, objectiveCode) ==
  [ to |-> "gemini", fn |-> "generateSOPFromContent",
    docNo |-> IF rev = "v2" THEN DocNo(chapterCode, objectiveCode) ELSE NoDocNo,
    effectiveDate |-> IF rev = "v2" THEN FormatDate(timeZone, EffectiveDate(clock))
                      ELSE NoDate,
    reviewDate |-> IF rev = "v2" THEN FormatDate(timeZone, ReviewDate(clock))
                   ELSE NoDate ]

\* generateSOPFromContent from the answer of the endpoint on
GenerateOutcome(rev, answer) ==
  IF answer = Throws THEN GenResult(FALSE, Empty, "network error")
  ELSE IF answer = ApiError THEN GenResult(FALSE, Empty, "Gemini API error")
  ELSE GenResult(TRUE, PostProcess(rev, answer), None)

\* generateSOPFromContent as a whole: key lookup k, answer of the endpoint
GenerateSOPFromContent(rev, k, chapterCode, objectiveCode, answer) ==
  IF k = "unbound" THEN [result |-> Threw(UnboundMessage), net |-> << >>]
  ELSE IF k = "none"
    THEN [result |-> GenResult(FALSE, Empty, "Gemini API key not configured"),
          net |-> << >>]
    ELSE [result |-> GenerateOutcome(rev, answer),
          net |-> <<GenerateRequest(rev, chapterCode, objectiveCode)>>]

\* a slip: the request goes out without a merged text
HandleGenerateSOPClickUnguarded(k) ==
  /\ ~generatingSOP
  /\ Len(netLog) < MaxRequests
  /\ generatingSOP' = TRUE
  /\ netLog' = netLog \o
       GenerateSOPFromContent(extractorRev, k, selectedChapterCode,
                              selectedObjective, Empty).net
  /\ pending' = pending \cup {[op |-> "generate", key |-> k]}
  /\ adCall' = [fn |-> "generateSOPFromContent"]
  /\ lastOp' = "generateClick"
  /\ UNCHANGED << variant, selectedChapterId, selectedChapterCode,
                  selectedObjective, oldSOPText, objectiveTitle, interpretation,
                  filteredContent, mergedContent, finalSOP, directEditContent,
                  currentVersion, sopVersions, showImprovementChat, isSaving,
                  aiImproving, snackbar >>
  /\ UNCHANGED << storeVars, gwVars, envVars, stageVars, extractorRev, apiKey, adResult >>

\* "Generate SOP" button, up to the await inside generateSOPFromContent
HandleGenerateSOPClick(k) ==
  /\ ~generatingSOP /\ mergedContent # Empty
  /\ Len(netLog) < MaxRequests
  /\ generatingSOP' = TRUE
  /\ netLog' = netLog \o
       GenerateSOPFromContent(extractorRev, k, selectedChapterCode,
                              selectedObjective, Empty).net
  /\ pending' = pending \cup {[op |-> "generate", key |-> k]}
  /\ adCall' = [fn |-> "generateSOPFromContent"]
  /\ lastOp' = "generateClick"
  /\ UNCHANGED << variant, selectedChapterId, selectedChapterCode,
                  selectedObjective, oldSOPText, objectiveTitle, interpretation,
                  filteredContent, mergedContent, finalSOP, directEditContent,
                  currentVersion, sopVersions, showImprovementChat, isSaving,
                  aiImproving, snackbar >>
  /\ UNCHANGED << storeVars, gwVars, envVars, stageVars, extractorRev, apiKey, adResult >>

\* handleGenerateSOP from the result of generateSOPFromContent on
HandleGenerateSOPDone(req, answer) ==
  /\ req \in pending /\ req.op = "generate"
  /\ (req.key # "key") => answer = Empty
  /\ pending' = pending \ {req}
  /\ LET result == GenerateSOPFromContent(extractorRev, req.key, selectedChapterCode,
                                          selectedObjective, answer).result
     IN  /\ adResult' = result
         /\ IF result.kind = "threw"
              THEN /\ snackbar' = Snack("Failed to generate SOP", "error")
                   /\ lastOp' = "generateFailed"
                   /\ UNCHANGED << finalSOP, directEditContent >>
              ELSE IF result.success /\ result.sop # Empty
                THEN /\ finalSOP' = result.sop
                     /\ directEditContent' =
                          IF variant = "f7" THEN result.sop ELSE directEditContent
                     /\ snackbar' = Snack("SOP generated successfully!", "success")
                     /\ lastOp' = "generateDone"
                ELSE /\ snackbar' =
                          Snack(IF result.error # None THEN result.error
                                ELSE "Failed to generate SOP", "error")
                     /\ lastOp' = "generateFailed"
                     /\ UNCHANGED << finalSOP, directEditContent >>
  /\ generatingSOP' = FALSE
  /\ UNCHANGED << variant, selectedChapterId, selectedChapterCode,
                  selectedObjective, oldSOPText, objectiveTitle, interpretation,
                  filteredContent, mergedContent, currentVersion, sopVersions,
                  showImprovementChat, isSaving, aiImproving >>
  /\ UNCHANGED << storeVars, gwVars, envVars, stageVars, extractorRev, apiKey, adCall, netLog >>

\* The page with a chapter and an objective chosen and a merged text present.
InitGenerate ==
  /\ variant \in Variants
  /\ selectedChapterId = "ch1"
  /\ selectedChapterCode \in ChapterCodes
  /\ selectedObjective \in ObjectiveCodes
  /\ NoObjectiveText /\ FirstVersion /\ Idle
  /\ oldSOPText = Empty /\ filteredContent = Empty
  /\ mergedContent = <<HdrFiltered, "\n", "x">>
  /\ finalSOP = Empty /\ directEditContent = Empty
  /\ StoreInit /\ GwInit /\ EnvInit /\ StageInit
  /\ extractorRev \in ExtractorRevs /\ apiKey \in BOOLEAN /\ AdIdle

NextGenerate ==
  \/ \E k \in KeyLookups : HandleGenerateSOPClick(k)
  \/ \E req \in pending, answer \in GenAnswers \cup {Throws} :
       HandleGenerateSOPDone(req, answer)

SpecGenerate == InitGenerate /\ [][NextGenerate]_vars

\* the generation requests the page has issued
GenerateRequests ==
  {netLog[k] : k \in {j \in 1..Len(netLog) : netLog[j].fn = "generateSOPFromContent"}}

Extraction(success, text, documentType, error) ==
  [ kind |-> "returned", success |-> success, text |-> text,
    documentType |-> documentType, error |-> error ]

Analysis(documentType, sections) ==
  [kind |-> "returned", documentType |-> documentType, sections |-> sections]

Filtered(success, filteredText, error) ==
  [ kind |-> "returned", success |-> success, filteredText |-> filteredText,
    error |-> error ]

KeyMissing == "Gemini API key not configured"

\* answers of the model endpoint to an extraction or filter request
TextAnswers == {Empty, <<"x">>, ApiError, Throws}

\* data.candidates?.[0]?.content?.parts?.[0]?.text || ''
AnswerText(answer) == IF answer = ApiError THEN Empty ELSE answer

ExtractTextFromImage(k, answer) ==
  IF k = "unbound" THEN [result |-> Threw(UnboundMessage), net |-> << >>]
  ELSE IF k = "none"
    THEN [result |-> Extraction(FALSE, Empty, None, KeyMissing), net |-> << >>]
    ELSE [ result |->
             IF answer = Throws
               THEN Extraction(FALSE, Empty, None, "Failed to extract text from image")
               ELSE Extraction(TRUE, AnswerText(answer), "image", None),
           net |-> <<ModelRequest("extractTextFromImage")>> ]

\* a slip: the request is built before the key is looked at
ExtractTextFromPDFKeyLate(k, answer) ==
  IF k = "unbound" THEN [result |-> Threw(UnboundMessage), net |-> << >>]
  ELSE [ result |->
           IF k = "none" THEN Extraction(FALSE, Empty, None, KeyMissing)
           ELSE IF answer = Throws
             THEN Extraction(FALSE, Empty, None, "Failed to extract text from PDF")
           ELSE IF answer = ApiError
             THEN Extraction(FALSE, Empty, None, "Gemini API error")
           ELSE Extraction(TRUE, answer, "pdf", None),
         net |-> <<ModelRequest("extractTextFromPDF")>> ]

ExtractTextFromPDF(k, answer) ==
  IF k = "unbound" THEN [result |-> Threw(UnboundMessage), net |-> << >>]
  ELSE IF k = "none"
    THEN [result |-> Extraction(FALSE, Empty, None, KeyMissing), net |-> << >>]
    ELSE [ result |->
             IF answer = Throws
               THEN Extraction(FALSE, Empty, None, "Failed to extract text from PDF")
             ELSE IF answer = ApiError
               THEN Extraction(FALSE, Empty, None, "Gemini API error")
             ELSE Extraction(TRUE, answer, "pdf", None),
           net |-> <<ModelRequest("extractTextFromPDF")>> ]

\* outcomes of fetch(pdfUrl)
FetchOutcomes == {"ok", "notOk", "throws"}

PdfFetch == [to |-> "pdfUrl", fn |-> "extractTextFromPDFUrl", docNo |-> NoDocNo]

ExtractTextFromPDFUrl(k, fetched, answer) ==
  IF fetched = "throws"
    THEN [result |-> Extraction(FALSE, Empty, None, "network error"),
          net |-> <<PdfFetch>>]
  ELSE IF fetched = "notOk"
    THEN [result |-> Extraction(FALSE, Empty, None, "Failed to fetch PDF"),
          net |-> <<PdfFetch>>]
  ELSE LET inner == ExtractTextFromPDF(k, answer)
       IN  [ result |-> IF inner.result.kind = "threw"
                          THEN Extraction(FALSE, Empty, None, inner.result.error)
                          ELSE inner.result,
             net |-> <<PdfFetch>> \o inner.net ]

FileTypes == {"image/png", "application/pdf", "application/msword", "text/plain"}

ExtractFromDocument(fileType, k, answer) ==
  IF fileType = "image/png" THEN ExtractTextFromImage(k, answer)
  ELSE IF fileType \in {"application/pdf", "application/msword"}
    THEN ExtractTextFromPDF(k, answer)
    ELSE [result |-> Extraction(FALSE, Empty, None, "Unsupported file type"),
          net |-> << >>]

\* an answer that carries a JSON object naming the document type "form"
JsonAnswer == <<"{json}">>

\* further answers: the object in a fenced json block, an object that names
\* no document type, text in braces that is not JSON, fenced text that is not
\* JSON, an empty fenced block
FenceJson == "[fence]json"

JsonUntyped == "{json without documentType}"

BrokenObject == "{not json}"

AnalysisAnswers ==
  { JsonAnswer,
    <<"x", FenceJson, "\n", "{json}", "\n", Fence>>,
    <<JsonUntyped>>,
    <<"x", BrokenObject>>,
    <<FenceJson, "\n", "x", "\n", Fence>>,
    <<FenceJson, Fence>> }

\* positions of the tokens of s that lie in set
Positions(s, set) == { i \in 1..Len(s) : s[i] \in set }

Lowest(set) == CHOOSE i \in set : \A j \in set : i <= j

Highest(set) == CHOOSE i \in set : \A j \in set : j <= i

\* responseText.match(fenced json block) || responseText.match(/\{[\s\S]*\}/),
\* then jsonMatch[1] || jsonMatch[0]; << >> when nothing matches
JsonMatch(responseText) ==
  LET opens  == Positions(responseText, {FenceJson})
      closes == IF opens = {} THEN {}
                ELSE { j \in Positions(responseText, {Fence}) : j > Lowest(opens) }
      braces == Positions(responseText, {"{json}", JsonUntyped, BrokenObject})
  IN  IF opens # {} /\ closes # {}
        THEN LET inner == SelectSeq(SubSeq(responseText, Lowest(opens) + 1,
                                           Lowest(closes) - 1),
                                    LAMBDA c : c # "\n")
             IN  IF inner # Empty THEN inner
                 ELSE SubSeq(responseText, Lowest(opens), Lowest(closes))
      ELSE IF braces # {}
        THEN SubSeq(responseText, Lowest(braces), Highest(braces))
      ELSE << >>

\* JSON.parse succeeds on the block
Parses(block) == block \in {<<"{json}">>, <<JsonUntyped>>}

AnalyzeDocument(k, documentCategory, answer) ==
  IF k = "unbound" THEN [result |-> Threw(UnboundMessage), net |-> << >>]
  ELSE IF k = "none" THEN [result |-> Analysis("unknown", << >>), net |-> << >>]
  ELSE [ result |->
           IF answer = Throws THEN Analysis("unknown", << >>)
           ELSE LET responseText == AnswerText(answer)
                    block        == JsonMatch(responseText)
                IN  IF block # << >> /\ Parses(block)
                      THEN Analysis(IF block = <<"{json}">> THEN "form"
                                    ELSE documentCategory, << >>)
                      ELSE Analysis(documentCategory,
                                    << [heading |-> "Extracted Content",
                                        content |-> responseText] >>),
         net |-> <<ModelRequest("analyzeDocument")>> ]

\* a slip: only the empty text is refused, blank text goes to the endpoint
FilterRelevantContentNoTrim(oldText, answer) ==
  IF oldText = Empty
    THEN [result |-> Filtered(FALSE, Empty, "No old SOP text provided to filter"),
          net |-> << >>]
    ELSE [ result |-> IF answer = Throws
                        THEN Filtered(FALSE, Empty, "network error")
                        ELSE Filtered(TRUE, AnswerText(answer), None),
           net |-> <<ModelRequest("filterRelevantContent")>> ]

FilterRelevantContent(oldText, answer) ==
  IF oldText = Empty \/ Trim(oldText) = Empty
    THEN [result |-> Filtered(FALSE, Empty, "No old SOP text provided to filter"),
          net |-> << >>]
    ELSE [ result |-> IF answer = Throws
                        THEN Filtered(FALSE, Empty, "network error")
                        ELSE Filtered(TRUE, AnswerText(answer), None),
           net |-> <<ModelRequest("filterRelevantContent")>> ]

\* one call of a function of the service: what was called, what went out on
\* the network during the call, what came back
Called(call, outcome) ==
  /\ adCall' = call
  /\ netLog' = outcome.net
  /\ adResult' = outcome.result
  /\ lastOp' = call.fn
  /\ UNCHANGED << pageFields, storeVars, gwVars, envVars, stageVars, extractorRev, apiKey >>

CallExtractTextFromImage ==
  \E k \in KeyLookups, answer \in TextAnswers :
    Called([fn |-> "extractTextFromImage", key |-> k, answer |-> answer],
           ExtractTextFromImage(k, answer))

CallExtractTextFromPDF ==
  \E k \in KeyLookups, answer \in TextAnswers :
    Called([fn |-> "extractTextFromPDF", key |-> k, answer |-> answer],
           ExtractTextFromPDF(k, answer))

CallExtractTextFromPDFUrl ==
  \E k \in KeyLookups, fetched \in FetchOutcomes, answer \in TextAnswers :
    Called([fn |-> "extractTextFromPDFUrl", key |-> k, fetched |-> fetched,
            answer |-> answer],
           ExtractTextFromPDFUrl(k, fetched, answer))

CallExtractFromDocument ==
  \E fileType \in FileTypes, k \in KeyLookups, answer \in TextAnswers :
    Called([fn |-> "extractFromDocument", key |-> k, fileType |-> fileType,
            answer |-> answer],
           ExtractFromDocument(fileType, k, answer))

CallAnalyzeDocument ==
  \E k \in KeyLookups, answer \in TextAnswers \cup AnalysisAnswers :
    Called([fn |-> "analyzeDocument", key |-> k, answer |-> answer],
           AnalyzeDocument(k, "stationery", answer))

CallGenerateSOPFromContent ==
  \E k \in KeyLookups, c \in ChapterCodes, o \in {Empty, <<"4", ".", "C">>},
     answer \in GenAnswers \cup {Throws} :
    Called([fn |-> "generateSOPFromContent", key |-> k, answer |-> answer],
           GenerateSOPFromContent(extractorRev, k, c, o, answer))

\* filterRelevantContent exists in the later revision only
CallFilterRelevantContent ==
  /\ extractorRev = "v2"
  /\ \E oldText \in Text, answer \in TextAnswers :
       Called([fn |-> "filterRelevantContent", oldSOPText |-> oldText,
               answer |-> answer],
              FilterRelevantContent(oldText, answer))

InitAdapter ==
  /\ variant \in Variants
  /\ NoSelection /\ NoStageOutput /\ NoObjectiveText /\ FirstVersion /\ Idle
  /\ StoreInit /\ GwInit /\ EnvInit /\ StageInit
  /\ extractorRev \in ExtractorRevs /\ apiKey \in BOOLEAN /\ AdIdle

NextAdapter ==
  \/ CallExtractTextFromImage
  \/ CallExtractTextFromPDF
  \/ CallExtractTextFromPDFUrl
  \/ CallExtractFromDocument
  \/ CallAnalyzeDocument
  \/ CallGenerateSOPFromContent
  \/ CallFilterRelevantContent

SpecAdapter == InitAdapter /\ [][NextAdapter]_vars

\* requests of the last call that went to the model endpoint
ModelRequests == {k \in 1..Len(netLog) : netLog[k].to = "gemini"}

\* C6: filterRelevantContent called with an empty or blank old SOP text
\* returns success:false with an error message and sends nothing to the
\* model endpoint.
C6_FilterEmptySource ==
  (adCall.fn = "filterRelevantContent" /\ Trim(adCall.oldSOPText) = Empty) =>
    /\ adResult.kind = "returned"
    /\ adResult.success = FALSE
    /\ adResult.error # None
    /\ netLog = << >>

\* filterRelevantContent was called with a blank, non-empty text
C6_Witness ==
  /\ adCall.fn = "filterRelevantContent"
  /\ adCall.oldSOPText = <<" ", "\n">>
  /\ adResult.kind = "returned" /\ adResult.success = FALSE

\* the six functions the credential claim names
NeedsCredential ==
  { "extractTextFromImage", "extractTextFromPDF", "extractTextFromPDFUrl",
    "extractFromDocument", "analyzeDocument", "generateSOPFromContent" }

\* C10 as stated: with no credential configured each of the six functions
\* returns success:false with an error and issues no network request at all,
\* the fetch of the remote PDF included.
C10_MissingCredentialAsClaimed ==
  (~apiKey /\ adCall.fn \in NeedsCredential) =>
    /\ adResult.kind = "returned"
    /\ adCall.fn # "analyzeDocument"
    /\ adResult.success = FALSE
    /\ adResult.error # None
    /\ netLog = << >>
\* C10: with no credential configured none of the six functions sends a
\* request to the model endpoint and none reports success. extractTextFromImage,
\* extractTextFromPDF and generateSOPFromContent, when they return, return
\* success:false with the error "Gemini API key not configured";
\* extractFromDocument does the same for image, PDF and Word files and
\* answers "Unsupported file type" for the rest; analyzeDocument returns the
\* bare analysis {documentType: "unknown", sections: []}; extractTextFromPDFUrl
\* fetches the remote PDF first, which is the only request that goes out, and
\* returns success:false with the fetch error or the key error.
C10_MissingCredential ==
  (~apiKey /\ adCall.fn \in NeedsCredential) =>
    /\ ModelRequests = {}
    /\ netLog # << >> => (adCall.fn = "extractTextFromPDFUrl" /\ netLog = <<PdfFetch>>)
    /\ adResult.kind = "returned" =>
         IF adCall.fn = "analyzeDocument"
           THEN adResult = Analysis("unknown", << >>)
           ELSE /\ ~adResult.success
                /\ adResult.error # None
                /\ adCall.fn \in {"extractTextFromImage", "extractTextFromPDF",
                                  "generateSOPFromContent"} =>
                     adResult.error = KeyMissing
                /\ (adCall.fn = "extractFromDocument" /\ adCall.key = "none") =>
                     adResult.error =
                       IF adCall.fileType = "text/plain" THEN "Unsupported file type"
                       ELSE KeyMissing
                /\ (adCall.fn = "extractTextFromPDFUrl" /\ adCall.key = "none"
                      /\ adCall.fetched = "ok") =>
                     adResult.error = KeyMissing

\* the URL variant ran without a credential: the PDF was fetched and the
\* result is the key error
C10_Witness ==
  /\ ~apiKey /\ adCall.fn = "extractTextFromPDFUrl"
  /\ netLog = <<PdfFetch>>
  /\ adResult.kind = "returned" /\ ~adResult.success /\ adResult.error = KeyMissing

(***************************************************************************)
(* The storage services: nabh_sop_documents and nabh_document_levels.      *)
(***************************************************************************)
\* what the backend does with one query: it runs it, it answers with an
\* error, or the client call itself throws
Backend == {"ok", "rejects", "throws"}

\* error instanceof Error ? error.message : 'Unknown error'. Whether the
\* error object the client hands back is an Error depends on the client
\* library, inst tells which.
ErrorText(outcome, inst) ==
  IF outcome = "throws" THEN "Failed to fetch"
  ELSE IF inst THEN "backend message" ELSE "Unknown error"

\* the result objects; data is kept as the set of rows handed back
Success(data) ==
  [ kind |-> "returned", success |-> TRUE, hasData |-> TRUE, data |-> data,
    hasError |-> FALSE, error |-> None ]

SuccessBare ==
  [ kind |-> "returned", success |-> TRUE, hasData |-> FALSE, data |-> {},
    hasError |-> FALSE, error |-> None ]

Failure(error) ==
  [ kind |-> "returned", success |-> FALSE, hasData |-> FALSE, data |-> {},
    hasError |-> TRUE, error |-> error ]

Undefined == [kind |-> "void"]

Reply(result, rows) == [result |-> result, rows |-> rows]

\* the rows the page writes
SOPRow(id, chapter_code, title, extracted_content, version) ==
  [ id |-> id, chapter_code |-> chapter_code, title |-> title,
    extracted_content |-> extracted_content, version |-> version ]

LevelRow(id, level, title, status) ==
  [id |-> id, level |-> level, title |-> title, status |-> status]

WithId(rows, id) == {r \in rows : r.id = id}

\* createSOPTable: no try, the error is thrown on
CreateSOPTable(rows, outcome, inst) ==
  IF outcome = "ok" THEN Reply(Undefined, rows)
  ELSE Reply(Threw(ErrorText(outcome, inst)), rows)

\* a slip: success without the stored row
SaveSOPDocumentNoData(rows, row, outcome, inst) ==
  IF outcome # "ok" THEN Reply(Failure(ErrorText(outcome, inst)), rows)
  ELSE Reply(SuccessBare, rows \cup {row})

SaveSOPDocument(rows, row, outcome, inst) ==
  IF outcome # "ok" THEN Reply(Failure(ErrorText(outcome, inst)), rows)
  ELSE Reply(Success({row}), rows \cup {row})

LoadAllSOPs(rows, outcome, inst) ==
  IF outcome # "ok" THEN Reply(Failure(ErrorText(outcome, inst)), rows)
  ELSE Reply(Success(rows), rows)

LoadSOPsByChapter(rows, chapterCode, outcome, inst) ==
  IF outcome # "ok" THEN Reply(Failure(ErrorText(outcome, inst)), rows)
  ELSE Reply(Success({r \in rows : r.chapter_code = chapterCode}), rows)

\* a slip: the error of the query is thrown on instead of being mapped
LoadSOPByIdNoCatch(rows, id, outcome, inst) ==
  IF outcome # "ok" THEN Reply(Threw(ErrorText(outcome, inst)), rows)
  ELSE IF WithId(rows, id) = {} THEN Reply(Threw(ErrorText("rejects", inst)), rows)
  ELSE Reply(Success(WithId(rows, id)), rows)

\* .single() answers with an error when no row has the id
LoadSOPById(rows, id, outcome, inst) ==
  IF outcome # "ok" THEN Reply(Failure(ErrorText(outcome, inst)), rows)
  ELSE IF WithId(rows, id) = {} THEN Reply(Failure(ErrorText("rejects", inst)), rows)
  ELSE Reply(Success(WithId(rows, id)), rows)

UpdateSOPDocument(rows, id, content, outcome, inst) ==
  IF outcome # "ok" THEN Reply(Failure(ErrorText(outcome, inst)), rows)
  ELSE IF WithId(rows, id) = {} THEN Reply(Failure(ErrorText("rejects", inst)), rows)
  ELSE LET updated == {[r EXCEPT !.extracted_content = content] : r \in WithId(rows, id)}
       IN  Reply(Success(updated), (rows \ WithId(rows, id)) \cup updated)

DeleteSOPDocument(rows, id, outcome, inst) ==
  IF outcome # "ok" THEN Reply(Failure(ErrorText(outcome, inst)), rows)
  ELSE Reply(SuccessBare, rows \ WithId(rows, id))

\* title, description or content contains the query; the rows here differ
\* in their content only
SearchSOPs(rows, query, outcome, inst) ==
  IF outcome # "ok" THEN Reply(Failure(ErrorText(outcome, inst)), rows)
  ELSE Reply(Success({r \in rows : query = Empty \/ r.extracted_content = query}), rows)

LoadDocumentsByLevel(rows, level, outcome, inst) ==
  IF outcome # "ok" THEN Reply(Failure(ErrorText(outcome, inst)), rows)
  ELSE Reply(Success({r \in rows : r.level = level}), rows)

SaveDocument(rows, row, outcome, inst) ==
  IF outcome # "ok" THEN Reply(Failure(ErrorText(outcome, inst)), rows)
  ELSE Reply(Success({row}), rows \cup {row})

UpdateDocument(rows, id, status, outcome, inst) ==
  IF outcome # "ok" THEN Reply(Failure(ErrorText(outcome, inst)), rows)
  ELSE IF WithId(rows, id) = {} THEN Reply(Failure(ErrorText("rejects", inst)), rows)
  ELSE LET updated == {[r EXCEPT !.status = status] : r \in WithId(rows, id)}
       IN  Reply(Success(updated), (rows \ WithId(rows, id)) \cup updated)

DeleteDocument(rows, id, outcome, inst) ==
  IF outcome # "ok" THEN Reply(Failure(ErrorText(outcome, inst)), rows)
  ELSE Reply(SuccessBare, rows \ WithId(rows, id))

LoadAllDocuments(rows, outcome, inst) ==
  IF outcome # "ok" THEN Reply(Failure(ErrorText(outcome, inst)), rows)
  ELSE Reply(Success(rows), rows)

Ids == 1..MaxIds

Levels == {1, 2}

Statuses == {"Active", "Draft"}

\* one call of a function of the SOP storage service
SopCalled(call, reply, newId) ==
  /\ gwCall' = call
  /\ gwResult' = reply.result
  /\ sopStore' = reply.rows
  /\ nextId' = newId
  /\ lastOp' = call.fn
  /\ UNCHANGED << pageFields, chapterData, levelStore, adVars, envVars, stageVars >>

\* one call of a function of the document level storage service
LevelCalled(call, reply, newId) ==
  /\ gwCall' = call
  /\ gwResult' = reply.result
  /\ levelStore' = reply.rows
  /\ nextId' = newId
  /\ lastOp' = call.fn
  /\ UNCHANGED << pageFields, chapterData, sopStore, adVars, envVars, stageVars >>

\* the id the backend gives a new row
Allocated(outcome) == IF outcome = "ok" THEN nextId + 1 ELSE nextId

CallCreateSOPTable ==
  \E outcome \in Backend, inst \in BOOLEAN :
    SopCalled([fn |-> "createSOPTable", outcome |-> outcome, id |-> 0],
              CreateSOPTable(sopStore, outcome, inst), nextId)

CallSaveSOPDocument ==
  /\ nextId <= MaxIds
  /\ \E c \in {<<"A", "A", "C">>, <<"C", "O", "P">>}, h \in Html,
        outcome \in Backend, inst \in BOOLEAN :
       SopCalled([fn |-> "saveSOPDocument", outcome |-> outcome, id |-> nextId],
                 SaveSOPDocument(sopStore,
                                 SOPRow(nextId, c, <<"T">>, h, <<"1", ".", "0">>),
                                 outcome, inst),
                 Allocated(outcome))

CallLoadAllSOPs ==
  \E outcome \in Backend, inst \in BOOLEAN :
    SopCalled([fn |-> "loadAllSOPs", outcome |-> outcome, id |-> 0],
              LoadAllSOPs(sopStore, outcome, inst), nextId)

CallLoadSOPsByChapter ==
  \E c \in {<<"A", "A", "C">>, <<"C", "O", "P">>}, outcome \in Backend, inst \in BOOLEAN :
    SopCalled([fn |-> "loadSOPsByChapter", outcome |-> outcome, id |-> 0],
              LoadSOPsByChapter(sopStore, c, outcome, inst), nextId)

CallLoadSOPById ==
  \E id \in Ids, outcome \in Backend, inst \in BOOLEAN :
    SopCalled([fn |-> "loadSOPById", outcome |-> outcome, id |-> id],
              LoadSOPById(sopStore, id, outcome, inst), nextId)

CallUpdateSOPDocument ==
  \E id \in Ids, h \in Html, outcome \in Backend, inst \in BOOLEAN :
    SopCalled([fn |-> "updateSOPDocument", outcome |-> outcome, id |-> id],
              UpdateSOPDocument(sopStore, id, h, outcome, inst), nextId)

CallDeleteSOPDocument ==
  \E id \in Ids, outcome \in Backend, inst \in BOOLEAN :
    SopCalled([fn |-> "deleteSOPDocument", outcome |-> outcome, id |-> id],
              DeleteSOPDocument(sopStore, id, outcome, inst), nextId)

CallSearchSOPs ==
  \E q \in Html \cup {Empty}, outcome \in Backend, inst \in BOOLEAN :
    SopCalled([fn |-> "searchSOPs", outcome |-> outcome, id |-> 0],
              SearchSOPs(sopStore, q, outcome, inst), nextId)

CallLoadDocumentsByLevel ==
  \E level \in Levels, outcome \in Backend, inst \in BOOLEAN :
    LevelCalled([fn |-> "loadDocumentsByLevel", outcome |-> outcome, id |-> 0],
                LoadDocumentsByLevel(levelStore, level, outcome, inst), nextId)

CallSaveDocument ==
  /\ nextId <= MaxIds
  /\ \E level \in Levels, outcome \in Backend, inst \in BOOLEAN :
       LevelCalled([fn |-> "saveDocument", outcome |-> outcome, id |-> nextId],
                   SaveDocument(levelStore, LevelRow(nextId, level, <<"D">>, "Draft"),
                                outcome, inst),
                   Allocated(outcome))

CallUpdateDocument ==
  \E id \in Ids, status \in Statuses, outcome \in Backend, inst \in BOOLEAN :
    LevelCalled([fn |-> "updateDocument", outcome |-> outcome, id |-> id],
                UpdateDocument(levelStore, id, status, outcome, inst), nextId)

CallDeleteDocument ==
  \E id \in Ids, outcome \in Backend, inst \in BOOLEAN :
    LevelCalled([fn |-> "deleteDocument", outcome |-> outcome, id |-> id],
                DeleteDocument(levelStore, id, outcome, inst), nextId)

CallLoadAllDocuments ==
  \E outcome \in Backend, inst \in BOOLEAN :
    LevelCalled([fn |-> "loadAllDocuments", outcome |-> outcome, id |-> 0],
                LoadAllDocuments(levelStore, outcome, inst), nextId)

InitGateway ==
  /\ variant = "f7"
  /\ NoSelection /\ NoStageOutput /\ NoObjectiveText /\ FirstVersion /\ Idle
  /\ StoreInit /\ GwInit /\ EnvInit /\ StageInit /\ AdInit

NextGateway ==
  \/ CallCreateSOPTable
  \/ CallSaveSOPDocument
  \/ CallLoadAllSOPs
  \/ CallLoadSOPsByChapter
  \/ CallLoadSOPById
  \/ CallUpdateSOPDocument
  \/ CallDeleteSOPDocument
  \/ CallSearchSOPs
  \/ CallLoadDocumentsByLevel
  \/ CallSaveDocument
  \/ CallUpdateDocument
  \/ CallDeleteDocument
  \/ CallLoadAllDocuments

SpecGateway == InitGateway /\ [][NextGateway]_vars

GatewayFunctions ==
  { "createSOPTable", "saveSOPDocument", "loadAllSOPs", "loadSOPsByChapter",
    "loadSOPById", "updateSOPDocument", "deleteSOPDocument", "searchSOPs",
    "loadDocumentsByLevel", "saveDocument", "updateDocument", "deleteDocument",
    "loadAllDocuments" }

DeleteFunctions == {"deleteSOPDocument", "deleteDocument"}

\* C7 as stated: every function of the two storage services, the deletes
\* included, returns success:true with data present or success:false with
\* error present, never a result with neither.
C7_ResultShapeAsClaimed ==
  gwCall.fn \in GatewayFunctions =>
    /\ gwResult.kind = "returned"
    /\ \/ gwResult.success /\ gwResult.hasData /\ ~gwResult.hasError
       \/ ~gwResult.success /\ gwResult.hasError /\ ~gwResult.hasData

\* C7: every result object of the two storage services carries data and
\* error never together; success:false always comes with an error and without
\* data; success:true comes without an error, with data for the save, load,
\* update and search functions and with neither data nor error for the two
\* delete functions.
C7_ResultShape ==
  (gwCall.fn \in GatewayFunctions /\ gwResult.kind = "returned") =>
    /\ ~(gwResult.hasData /\ gwResult.hasError)
    /\ ~gwResult.success => (gwResult.hasError /\ ~gwResult.hasData)
    /\ gwResult.success =>
         /\ ~gwResult.hasError
         /\ gwResult.hasData <=> gwCall.fn \notin DeleteFunctions

\* a delete went through and gave back success with neither data nor error
C7_Witness ==
  /\ gwCall.fn = "deleteSOPDocument" /\ gwCall.outcome = "ok"
  /\ gwResult.kind = "returned" /\ gwResult.success
  /\ ~gwResult.hasData /\ ~gwResult.hasError

\* C8 as stated: no function of the two storage services, createSOPTable
\* included, lets a backend failure reach the caller as an exception.
C8_NeverThrowsAsClaimed ==
  gwCall.fn \in GatewayFunctions => gwResult.kind # "threw"

\* C8: every function of the two storage services other than createSOPTable
\* maps each backend failure (query answered with an error, client call
\* throwing, no row for a single-record fetch) to success:false with an
\* error message; createSOPTable throws the backend error on to its caller.
C8_FailuresMapped ==
  /\ (gwCall.fn \in GatewayFunctions \ {"createSOPTable"}) =>
       /\ gwResult.kind = "returned"
       /\ gwCall.outcome # "ok" => (~gwResult.success /\ gwResult.hasError)
       /\ (gwCall.fn \in {"loadSOPById", "updateSOPDocument"}
             /\ WithId(sopStore, gwCall.id) = {}) =>
            (~gwResult.success /\ gwResult.hasError)
  /\ (gwCall.fn = "createSOPTable" /\ gwCall.outcome # "ok") =>
       gwResult.kind = "threw"

\* a single-record fetch for an id with no row, on a healthy backend, came
\* back as success:false
C8_Witness ==
  /\ gwCall.fn = "loadSOPById" /\ gwCall.outcome = "ok"
  /\ WithId(sopStore, gwCall.id) = {}
  /\ gwResult.kind = "returned" /\ ~gwResult.success /\ gwResult.hasError

(***************************************************************************)
(* The stored-SOP panel of RecentSOPsPage.tsx: save and load.              *)
(***************************************************************************)
\* handleSaveSOPToDatabase reads selectedChapterName while building the row;
\* the component declares no state, prop, import or local of that name
SelectedChapterNameDeclared == FALSE

ChapterDataRow(chapter_id, objective_code, content, title) ==
  [ chapter_id |-> chapter_id, objective_code |-> objective_code,
    data_type |-> "final_sop", content |-> content, title |-> title ]

\* handleSaveSOPToDatabase with the values of the render it was created in.
\* Reading the undeclared name throws inside the try, before saveSOPDocument
\* is called; the catch reports and nothing is written.
SaveSOPToDatabase(sop, chapterId, chapterCode, title, version, outcome, inst) ==
  IF sop = Empty \/ chapterId = "" \/ title = Empty
    THEN [ rows |-> sopStore, newId |-> nextId,
           snack |-> Snack("Please ensure chapter is selected and SOP is generated",
                           "error") ]
  ELSE IF ~SelectedChapterNameDeclared
    THEN [ rows |-> sopStore, newId |-> nextId,
           snack |-> Snack("Failed to save SOP", "error") ]
  ELSE LET reply == SaveSOPDocument(sopStore,
                                    SOPRow(nextId, chapterCode, title, sop, version),
                                    outcome, inst)
       IN  [ rows |-> reply.rows, newId |-> Allocated(outcome),
             snack |-> IF reply.result.success
                         THEN Snack("SOP saved successfully to database!", "success")
                         ELSE Snack(reply.result.error, "error") ]

\* "Save Current SOP" button
HandleSaveSOPToDatabase(outcome, inst) ==
  /\ variant = "legacy"
  /\ finalSOP # Empty /\ ~isSaving
  /\ nextId <= MaxIds
  /\ LET saved == SaveSOPToDatabase(finalSOP, selectedChapterId, selectedChapterCode,
                                    objectiveTitle, currentVersion, outcome, inst)
     IN  /\ sopStore' = saved.rows
         /\ nextId' = saved.newId
         /\ snackbar' = saved.snack
  /\ isSaving' = FALSE
  /\ lastOp' = "saveSOPToDatabase"
  /\ UNCHANGED << variant, selectedChapterId, selectedChapterCode,
                  selectedObjective, oldSOPText, objectiveTitle, interpretation,
                  filteredContent, mergedContent, finalSOP, directEditContent,
                  currentVersion, sopVersions, showImprovementChat,
                  generatingSOP, aiImproving, pending >>
  /\ UNCHANGED << chapterData, levelStore, gwVars, envVars, stageVars, adVars >>

\* "Save to DB" icon of the legacy page, up to its first await
HandleSaveToDBClick ==
  /\ variant = "legacy"
  /\ finalSOP # Empty /\ ~isSaving
  /\ nextId <= MaxIds
  /\ IF selectedChapterId = ""
       THEN /\ snackbar' = Snack("Ensure chapter is selected and SOP generated.", "error")
            /\ UNCHANGED << isSaving, pending >>
       ELSE /\ isSaving' = TRUE
            /\ pending' = pending \cup
                 {[ op |-> "saveToDB", content |-> finalSOP,
                    chapterId |-> selectedChapterId, chapterCode |-> selectedChapterCode,
                    objective |-> selectedObjective, title |-> objectiveTitle,
                    version |-> currentVersion ]}
            /\ UNCHANGED snackbar
  /\ lastOp' = "saveToDBClick"
  /\ UNCHANGED << variant, selectedChapterId, selectedChapterCode,
                  selectedObjective, oldSOPText, objectiveTitle, interpretation,
                  filteredContent, mergedContent, finalSOP, directEditContent,
                  currentVersion, sopVersions, showImprovementChat,
                  generatingSOP, aiImproving >>
  /\ UNCHANGED << storeVars, gwVars, envVars, stageVars, adVars >>

\* handleSaveToDB from the insert into nabh_chapter_data on, the call of
\* handleSaveSOPToDatabase included
HandleSaveToDBDone(req, legacyOutcome, outcome, inst) ==
  /\ req \in pending /\ req.op = "saveToDB"
  /\ pending' = pending \ {req}
  /\ IF legacyOutcome # "ok"
       THEN /\ snackbar' = Snack("Error saving SOP", "error")
            /\ UNCHANGED << chapterData, sopStore, nextId >>
       ELSE LET saved == SaveSOPToDatabase(req.content, req.chapterId, req.chapterCode,
                                           req.title, req.version, outcome, inst)
            IN  /\ chapterData' = chapterData \cup
                     {ChapterDataRow(req.chapterId, req.objective, req.content, req.title)}
                /\ sopStore' = saved.rows
                /\ nextId' = saved.newId
                /\ snackbar' = saved.snack
  /\ isSaving' = FALSE
  /\ lastOp' = "saveToDBDone"
  /\ UNCHANGED << variant, selectedChapterId, selectedChapterCode,
                  selectedObjective, oldSOPText, objectiveTitle, interpretation,
                  filteredContent, mergedContent, finalSOP, directEditContent,
                  currentVersion, sopVersions, showImprovementChat,
                  generatingSOP, aiImproving >>
  /\ UNCHANGED << levelStore, gwVars, envVars, stageVars, adVars >>

\* click on a stored SOP card
HandleLoadStoredSOP(sopId, outcome, inst) ==
  /\ variant = "legacy"
  /\ LET result == LoadSOPById(sopStore, sopId, outcome, inst).result
     IN  IF result.success
           THEN LET sop == CHOOSE r \in result.data : TRUE
                IN  /\ finalSOP' = sop.extracted_content
                    /\ objectiveTitle' = sop.title
                    /\ currentVersion' = sop.version
                    /\ snackbar' = Snack("Loaded SOP", "success")
                    /\ lastOp' = "loadStoredSOP"
           ELSE /\ snackbar' = Snack(result.error, "error")
                /\ lastOp' = "loadStoredSOPFailed"
                /\ UNCHANGED << finalSOP, objectiveTitle, currentVersion >>
  /\ UNCHANGED << variant, selectedChapterId, selectedChapterCode,
                  selectedObjective, oldSOPText, interpretation,
                  filteredContent, mergedContent, directEditContent,
                  sopVersions, showImprovementChat, isSaving,
                  generatingSOP, aiImproving, pending >>
  /\ UNCHANGED << storeVars, gwVars, envVars, stageVars, adVars >>

\* a row written to nabh_sop_documents before this session
StoredBefore == SOPRow(1, <<"A", "A", "C">>, <<"S">>, <<"<p>", "s">>, <<"1", ".", "2">>)

\* The legacy page with or without a chapter, a title and a generated SOP,
\* and the table empty or holding one earlier row.
InitSave ==
  /\ variant = "legacy"
  /\ \/ selectedChapterId = "" /\ selectedChapterCode = Empty
     \/ selectedChapterId = "ch1" /\ selectedChapterCode = <<"A", "A", "C">>
  /\ selectedObjective = Empty
  /\ objectiveTitle \in {Empty, <<"T">>} /\ interpretation = Empty
  /\ oldSOPText = Empty /\ filteredContent = Empty /\ mergedContent = Empty
  /\ FirstVersion /\ Idle
  /\ finalSOP \in Html \cup {Empty} /\ directEditContent = Empty
  /\ chapterData = {} /\ levelStore = {}
  /\ \/ sopStore = {} /\ nextId = 1
     \/ sopStore = {StoredBefore} /\ nextId = 2
  /\ GwInit /\ EnvInit /\ StageInit /\ AdInit

NextSave ==
  \/ \E outcome \in Backend, inst \in BOOLEAN : HandleSaveSOPToDatabase(outcome, inst)
  \/ HandleSaveToDBClick
  \/ \E req \in pending, legacyOutcome \in Backend, outcome \in Backend, inst \in BOOLEAN :
       HandleSaveToDBDone(req, legacyOutcome, outcome, inst)
  \/ \E sopId \in Ids, outcome \in Backend, inst \in BOOLEAN :
       HandleLoadStoredSOP(sopId, outcome, inst)

SpecSave == InitSave /\ [][NextSave]_vars

\* C9 as stated: once handleSaveSOPToDatabase has run with a generated SOP H,
\* a chapter and a title present, nabh_sop_documents holds a record whose
\* content is H, and loading that record by its id gives back H.
C9_RoundTripAsClaimed ==
  ( /\ lastOp = "saveSOPToDatabase"
    /\ finalSOP # Empty /\ selectedChapterId # "" /\ objectiveTitle # Empty ) =>
    \E r \in sopStore :
      /\ r.extracted_content = finalSOP
      /\ \A l \in LoadSOPById(sopStore, r.id, "ok", TRUE).result.data :
           l.extracted_content = finalSOP

(***************************************************************************)
(* Failure semantics of the extraction service.                            *)
(***************************************************************************)
\* the functions of the service whose result carries a success flag
FlagFunctions ==
  { "extractTextFromImage", "extractTextFromPDF", "extractTextFromPDFUrl",
    "generateSOPFromContent", "filterRelevantContent" }

\* the last call met a network failure, a refused fetch of the source PDF or
\* an answer of the model endpoint carrying an error object
CallFailed ==
  /\ adCall.fn \in FlagFunctions
  /\ \/ adCall.fn = "extractTextFromPDFUrl" /\ adCall.fetched # "ok"
     \/ ModelRequests # {} /\ adCall.answer \in {Throws, ApiError}

\* C11 as stated: each of the five functions turns a network failure, a
\* refused fetch of the source PDF and an answer carrying an error object
\* into success:false with an error string, never into success:true.
C11_UniformFailureAsClaimed ==
  CallFailed =>
    /\ adResult.kind = "returned"
    /\ ~adResult.success
    /\ adResult.error # None

\* no fenced-code marker anywhere in the text
NoFence(s) == \A k \in 1..Len(s) : s[k] \notin {FenceHtml, FenceHtmlUpper, Fence}

\* C12 as stated: whenever generateSOPFromContent returns success:true the
\* returned sop holds no fenced-code marker and begins with a doctype
\* declaration.
C12_PostProcessingAsClaimed ==
  ( /\ adCall.fn = "generateSOPFromContent"
    /\ adResult.kind = "returned" /\ adResult.success ) =>
    /\ NoFence(adResult.sop)
    /\ StartsWithDoctype(adResult.sop)

(***************************************************************************)
(* Generation at different instants and in different time zones.           *)
(***************************************************************************)
\* the runs start on the days from 25 March 2024 on
ClockDays == 10

Clocks ==
  { d * TicksPerDay + h :
      d \in DayNumber(2024, 3, 25)..(DayNumber(2024, 3, 25) + ClockDays - 1),
      h \in 0..(TicksPerDay - 1) }

InitDates ==
  /\ variant = "f7"
  /\ NoSelection /\ NoStageOutput /\ NoObjectiveText /\ FirstVersion /\ Idle
  /\ StoreInit /\ GwInit
  /\ extractorRev = "v2" /\ apiKey = TRUE /\ AdIdle
  /\ StageInit
  /\ clock \in Clocks /\ timeZone \in TimeZones /\ LevelInit

\* generateSOPFromContent called for one chapter, with and without an answer
CallGenerateOnDate ==
  \E k \in KeyLookups, answer \in {<<Doctype, "\n", "<p>", "x">>, Throws} :
    Called([fn |-> "generateSOPFromContent", key |-> k, answer |-> answer],
           GenerateSOPFromContent(extractorRev, k, <<"A", "A", "C">>, Empty, answer))

NextDates == CallGenerateOnDate

SpecDates == InitDates /\ [][NextDates]_vars

\* C13 as stated: for a run on the local calendar date D the effective date
\* in the template is D minus 30 days and the review date is D plus 365 days,
\* so the two are 395 days apart, each rendered as two-digit day, short
\* month, four-digit year.
C13_DatesAsClaimed ==
  \A r \in GenerateRequests :
    LET D == LocalDay(timeZone, clock)
    IN  /\ r.effectiveDate = RenderDay(D - 30)
        /\ r.reviewDate = RenderDay(D + 365)
        /\ Len(r.effectiveDate) = 9 /\ Len(r.reviewDate) = 9


(***************************************************************************)
(* RecentSOPsPage: selection of chapter and objective, F1 extraction and   *)
(* the AI filter.                                                          *)
(***************************************************************************)
\* requests one page may have in flight
MaxInFlight == 2

\* nabh_chapters: the ids offered by the chapter Select
ChapterIds == {"ch1", "ch2"}

\* chapter.name.match(/^[A-Z]{3}/)
ChapterCodeOf(id) == IF id = "ch1" THEN <<"A", "A", "C">> ELSE <<"C", "O", "P">>

\* objective codes listed for a chapter by loadObjectiveEditsByChapter
ObjectiveEdits(chapterCode) ==
  IF chapterCode = Empty THEN {}
  ELSE IF chapterCode = <<"A", "A", "C">> THEN {<<"4">>, <<"4", ".", "C">>}
  ELSE {<<"C">>}

\* obj.title and obj.interpretations2 of a listed objective
TitleOf(code) == <<"T">>
InterpretationOf(code) == IF code = <<"C">> THEN Empty ELSE <<"I">>

\* the documentation rows of a chapter, combined under their source headers
Documentation(id) == <<"=== SOP SOURCE ===", "\n", id>>

\* chapter Select onChange, up to the await of the documentation query; the
\* effect on selectedChapterCode starts loadChapterObjectives
ChapterChange(id) ==
  /\ id # selectedChapterId
  /\ Cardinality(pending) < MaxInFlight
  /\ selectedChapterId' = id
  /\ selectedChapterCode' = ChapterCodeOf(id)
  /\ oldSOPText' = Empty /\ filteredContent' = Empty /\ mergedContent' = Empty
  /\ finalSOP' = Empty /\ directEditContent' = Empty
  /\ selectedObjective' = Empty /\ objectiveTitle' = Empty /\ interpretation' = Empty
  /\ extractingOldSOP' = TRUE
  /\ pending' = pending \cup
       { [op |-> "chapterFetch", chapterId |-> id],
         [op |-> "loadObjectives", chapterCode |-> ChapterCodeOf(id)] }
  /\ lastOp' = "chapterChange"
  /\ UNCHANGED << variant, currentVersion, sopVersions, showImprovementChat,
                  isSaving, generatingSOP, aiImproving, snackbar >>
  /\ UNCHANGED << objectives, filteringContent, existingSOP, generatedSops >>
  /\ UNCHANGED << storeVars, gwVars, envVars, adVars >>

\* what the documentation query may give
FetchReplies == {"rows", "empty", "error", "throws"}

\* chapter Select onChange, from the answer of the documentation query on
ChapterFetchDone(req, reply) ==
  /\ req \in pending /\ req.op = "chapterFetch"
  /\ pending' = pending \ {req}
  /\ IF reply = "error"
       THEN /\ snackbar' = Snack("Error fetching documentation data", "error")
            /\ UNCHANGED oldSOPText
       ELSE IF reply = "rows"
         THEN /\ oldSOPText' = Documentation(req.chapterId)
              /\ snackbar' = Snack("Loaded documentation record(s)", "success")
       ELSE IF reply = "empty"
         THEN /\ oldSOPText' = Empty
              /\ snackbar' = Snack("No documentation found for this chapter", "error")
       ELSE /\ snackbar' = Snack("Failed to fetch documentation", "error")
            /\ UNCHANGED oldSOPText
  /\ extractingOldSOP' = FALSE
  /\ lastOp' = IF reply = "rows" THEN "chapterFetchDone" ELSE "chapterFetchFailed"
  /\ UNCHANGED << variant, selectedChapterId, selectedChapterCode,
                  selectedObjective, objectiveTitle, interpretation,
                  filteredContent, mergedContent, finalSOP, directEditContent,
                  currentVersion, sopVersions, showImprovementChat, isSaving,
                  generatingSOP, aiImproving >>
  /\ UNCHANGED << objectives, filteringContent, existingSOP, generatedSops >>
  /\ UNCHANGED << storeVars, gwVars, envVars, adVars >>

\* loadChapterObjectives, from the answer of loadObjectiveEditsByChapter on
LoadChapterObjectivesDone(req, ok) ==
  /\ req \in pending /\ req.op = "loadObjectives"
  /\ pending' = pending \ {req}
  /\ IF ok
       THEN objectives' = req.chapterCode /\ selectedObjective' = Empty
       ELSE objectives' = Empty /\ UNCHANGED selectedObjective
  /\ lastOp' = "loadObjectivesDone"
  /\ UNCHANGED << variant, selectedChapterId, selectedChapterCode,
                  oldSOPText, objectiveTitle, interpretation,
                  filteredContent, mergedContent, finalSOP, directEditContent,
                  currentVersion, sopVersions, showImprovementChat, isSaving,
                  generatingSOP, aiImproving, snackbar >>
  /\ UNCHANGED << extractingOldSOP, filteringContent, existingSOP, generatedSops >>
  /\ UNCHANGED << storeVars, gwVars, envVars, adVars >>

\* handleObjectiveChange(objectiveCode), up to the await of the query on
\* nabh_generated_sops (the revision with F7 only)
HandleObjectiveChange(objectiveCode) ==
  /\ selectedChapterId # ""
  /\ objectiveCode \in ObjectiveEdits(objectives)
  /\ objectiveCode # selectedObjective
  /\ Cardinality(pending) < MaxInFlight
  /\ selectedObjective' = objectiveCode
  /\ objectiveTitle' = TitleOf(objectiveCode)
  /\ interpretation' = InterpretationOf(objectiveCode)
  /\ filteredContent' = Empty /\ mergedContent' = Empty /\ finalSOP' = Empty
  /\ IF variant = "f7"
       THEN /\ directEditContent' = Empty
            /\ existingSOP' = {}
            /\ pending' =
                 IF selectedChapterCode # Empty
                   THEN pending \cup {[ op |-> "existingSOP",
                                        chapterCode |-> selectedChapterCode,
                                        objective |-> objectiveCode ]}
                   ELSE pending
       ELSE UNCHANGED << directEditContent, existingSOP, pending >>
  /\ lastOp' = "objectiveChange"
  /\ UNCHANGED << variant, selectedChapterId, selectedChapterCode, oldSOPText,
                  currentVersion, sopVersions, showImprovementChat, isSaving,
                  generatingSOP, aiImproving, snackbar >>
  /\ UNCHANGED << objectives, extractingOldSOP, filteringContent, generatedSops >>
  /\ UNCHANGED << storeVars, gwVars, envVars, adVars >>

\* a row of nabh_generated_sops
GeneratedRow(id, chapter_code, objective_code, sop_html_content) ==
  [ id |-> id, chapter_code |-> chapter_code, objective_code |-> objective_code,
    sop_html_content |-> sop_html_content ]

\* .eq('chapter_code', ..).eq('objective_code', ..).order('created_at',
\* { ascending: false }).limit(1): no row or the newest one
LatestGenerated(rows, chapterCode, objectiveCode) ==
  LET found == { r \in rows : r.chapter_code = chapterCode
                                /\ r.objective_code = objectiveCode }
  IN  { r \in found : \A q \in found : q.id <= r.id }

\* handleObjectiveChange, from the answer of the query on nabh_generated_sops on
ExistingSOPDone(req, reply) ==
  /\ req \in pending /\ req.op = "existingSOP"
  /\ pending' = pending \ {req}
  /\ LET data == IF reply = "ok"
                   THEN LatestGenerated(generatedSops, req.chapterCode, req.objective)
                   ELSE {}
     IN  IF data # {}
           THEN LET row == CHOOSE r \in data : TRUE
                IN  /\ existingSOP' = data
                    /\ IF row.sop_html_content # Empty
                         THEN /\ finalSOP' = row.sop_html_content
                              /\ directEditContent' = row.sop_html_content
                         ELSE UNCHANGED << finalSOP, directEditContent >>
                    /\ snackbar' = Snack("Found existing SOP for", "success")
                    /\ lastOp' = "existingSOPFound"
           ELSE /\ UNCHANGED << existingSOP, finalSOP, directEditContent, snackbar >>
                /\ lastOp' = "existingSOPNone"
  /\ UNCHANGED << variant, selectedChapterId, selectedChapterCode,
                  selectedObjective, oldSOPText, objectiveTitle, interpretation,
                  filteredContent, mergedContent, currentVersion, sopVersions,
                  showImprovementChat, isSaving, generatingSOP, aiImproving >>
  /\ UNCHANGED << objectives, extractingOldSOP, filteringContent, generatedSops >>
  /\ UNCHANGED << storeVars, gwVars, envVars, adVars >>

\* handleExtractOldSOP, up to the await of loadSOPsByChapter
HandleExtractOldSOPClick ==
  /\ selectedChapterId # "" /\ ~extractingOldSOP
  /\ Cardinality(pending) < MaxInFlight
  /\ IF selectedChapterCode = Empty
       THEN /\ snackbar' = Snack("Please select a chapter first", "error")
            /\ UNCHANGED << extractingOldSOP, oldSOPText, pending >>
       ELSE /\ extractingOldSOP' = TRUE
            /\ oldSOPText' = Empty
            /\ pending' = pending \cup
                 {[op |-> "extract", chapterCode |-> selectedChapterCode]}
            /\ UNCHANGED snackbar
  /\ lastOp' = "extractClick"
  /\ UNCHANGED << variant, selectedChapterId, selectedChapterCode,
                  selectedObjective, objectiveTitle, interpretation,
                  filteredContent, mergedContent, finalSOP, directEditContent,
                  currentVersion, sopVersions, showImprovementChat, isSaving,
                  generatingSOP, aiImproving >>
  /\ UNCHANGED << objectives, filteringContent, existingSOP, generatedSops >>
  /\ UNCHANGED << storeVars, gwVars, envVars, adVars >>

SopHeader == "=== SOP ==="

NoContentFound == <<"No content found in SOPs.">>

\* the loop of handleExtractOldSOP over n SOPs with one PDF each, every PDF
\* giving the same extraction result
RECURSIVE ExtractedContent(_, _)
ExtractedContent(n, extractResult) ==
  IF n = 0 THEN Empty
  ELSE ExtractedContent(n - 1, extractResult) \o <<"\n", SopHeader, "\n">>
         \o (IF extractResult.kind = "returned" /\ extractResult.success
                  /\ extractResult.text # Empty
               THEN extractResult.text \o <<"\n">> ELSE Empty)

\* extractedCount of the same loop
ExtractedCount(n, extractResult) ==
  IF extractResult.kind = "returned" /\ extractResult.success
       /\ extractResult.text # Empty
    THEN n ELSE 0

\* handleExtractOldSOP, from the answer of loadSOPsByChapter on; hasPdf tells
\* whether the stored SOPs carry a PDF link
HandleExtractOldSOPDone(req, outcome, inst, hasPdf, k, fetched, answer) ==
  /\ req \in pending /\ req.op = "extract"
  /\ pending' = pending \ {req}
  /\ LET result        == LoadSOPsByChapter(sopStore, req.chapterCode, outcome, inst).result
         extraction    == ExtractTextFromPDFUrl(k, fetched, answer)
         extractResult == extraction.result
         n             == IF hasPdf THEN Cardinality(result.data) ELSE 0
         content       == ExtractedContent(n, extractResult)
     IN  IF ~result.success
           THEN /\ snackbar' = Snack(IF result.error # None THEN result.error
                                     ELSE "Failed to load SOPs", "error")
                /\ lastOp' = "extractFailed"
                /\ UNCHANGED << oldSOPText, netLog, adCall, adResult >>
         ELSE IF result.data = {}
           THEN /\ snackbar' = Snack("No SOPs found for chapter", "error")
                /\ lastOp' = "extractFailed"
                /\ UNCHANGED << oldSOPText, netLog, adCall, adResult >>
         ELSE /\ oldSOPText' = IF content # Empty THEN content ELSE NoContentFound
              /\ snackbar' = Snack(IF ExtractedCount(n, extractResult) = 0
                                     THEN "Extracted content from 0 PDFs"
                                     ELSE "Extracted content from PDFs", "success")
              /\ IF n > 0
                   THEN /\ adCall' = [fn |-> "extractTextFromPDFUrl"]
                        /\ adResult' = extractResult
                        /\ lastOp' = "extractDone"
                   ELSE /\ UNCHANGED << adCall, adResult >>
                        /\ lastOp' = "extractDoneNoPdf"
              /\ UNCHANGED netLog
  /\ extractingOldSOP' = FALSE
  /\ UNCHANGED << variant, selectedChapterId, selectedChapterCode,
                  selectedObjective, objectiveTitle, interpretation,
                  filteredContent, mergedContent, finalSOP, directEditContent,
                  currentVersion, sopVersions, showImprovementChat, isSaving,
                  generatingSOP, aiImproving >>
  /\ UNCHANGED << objectives, filteringContent, existingSOP, generatedSops >>
  /\ UNCHANGED << storeVars, gwVars, envVars, extractorRev, apiKey >>

\* a plausible revision: starting the filter invalidates the later outputs
HandleRunFilterClickInvalidating ==
  /\ ~filteringContent /\ oldSOPText # Empty /\ selectedObjective # Empty
  /\ Cardinality(pending) < MaxInFlight
  /\ filteringContent' = TRUE
  /\ filteredContent' = Empty /\ mergedContent' = Empty /\ finalSOP' = Empty
  /\ pending' = pending \cup
       {[op |-> "filter", oldText |-> oldSOPText, objective |-> selectedObjective]}
  /\ lastOp' = "filterClick"
  /\ UNCHANGED << variant, selectedChapterId, selectedChapterCode,
                  selectedObjective, oldSOPText, objectiveTitle, interpretation,
                  directEditContent,
                  currentVersion, sopVersions, showImprovementChat, isSaving,
                  generatingSOP, aiImproving, snackbar >>
  /\ UNCHANGED << objectives, extractingOldSOP, existingSOP, generatedSops >>
  /\ UNCHANGED << storeVars, gwVars, envVars, adVars >>

\* handleRunFilter, up to the await of filterRelevantContent
HandleRunFilterClick ==
  /\ ~filteringContent /\ oldSOPText # Empty /\ selectedObjective # Empty
  /\ Cardinality(pending) < MaxInFlight
  /\ filteringContent' = TRUE
  /\ filteredContent' = Empty
  /\ pending' = pending \cup
       {[op |-> "filter", oldText |-> oldSOPText, objective |-> selectedObjective]}
  /\ lastOp' = "filterClick"
  /\ UNCHANGED << variant, selectedChapterId, selectedChapterCode,
                  selectedObjective, oldSOPText, objectiveTitle, interpretation,
                  mergedContent, finalSOP, directEditContent,
                  currentVersion, sopVersions, showImprovementChat, isSaving,
                  generatingSOP, aiImproving, snackbar >>
  /\ UNCHANGED << objectives, extractingOldSOP, existingSOP, generatedSops >>
  /\ UNCHANGED << storeVars, gwVars, envVars, adVars >>

\* a plausible slip: the flag is reset on the success path only
HandleRunFilterDoneNoFinally(req, answer) ==
  /\ req \in pending /\ req.op = "filter"
  /\ pending' = pending \ {req}
  /\ LET result == FilterRelevantContent(req.oldText, answer).result
     IN  /\ adCall' = [fn |-> "filterRelevantContent"]
         /\ adResult' = result
         /\ IF result.success /\ result.filteredText # Empty
              THEN /\ filteredContent' = result.filteredText
                   /\ snackbar' = Snack("Content filtered successfully!", "success")
                   /\ lastOp' = "filterDone"
                   /\ filteringContent' = FALSE
              ELSE /\ snackbar' = Snack(IF result.error # None THEN result.error
                                        ELSE "Failed to filter content", "error")
                   /\ lastOp' = "filterFailed"
                   /\ UNCHANGED << filteredContent, filteringContent >>
  /\ UNCHANGED << variant, selectedChapterId, selectedChapterCode,
                  selectedObjective, oldSOPText, objectiveTitle, interpretation,
                  mergedContent, finalSOP, directEditContent,
                  currentVersion, sopVersions, showImprovementChat, isSaving,
                  generatingSOP, aiImproving >>
  /\ UNCHANGED << objectives, extractingOldSOP, existingSOP, generatedSops >>
  /\ UNCHANGED << storeVars, gwVars, envVars, extractorRev, apiKey, netLog >>

\* handleRunFilter, from the result of filterRelevantContent on
HandleRunFilterDone(req, answer) ==
  /\ req \in pending /\ req.op = "filter"
  /\ pending' = pending \ {req}
  /\ LET result == FilterRelevantContent(req.oldText, answer).result
     IN  /\ adCall' = [fn |-> "filterRelevantContent"]
         /\ adResult' = result
         /\ IF result.success /\ result.filteredText # Empty
              THEN /\ filteredContent' = result.filteredText
                   /\ snackbar' = Snack("Content filtered successfully!", "success")
                   /\ lastOp' = "filterDone"
              ELSE /\ snackbar' = Snack(IF result.error # None THEN result.error
                                        ELSE "Failed to filter content", "error")
                   /\ lastOp' = "filterFailed"
                   /\ UNCHANGED filteredContent
  /\ filteringContent' = FALSE
  /\ UNCHANGED << variant, selectedChapterId, selectedChapterCode,
                  selectedObjective, oldSOPText, objectiveTitle, interpretation,
                  mergedContent, finalSOP, directEditContent,
                  currentVersion, sopVersions, showImprovementChat, isSaving,
                  generatingSOP, aiImproving >>
  /\ UNCHANGED << objectives, extractingOldSOP, existingSOP, generatedSops >>
  /\ UNCHANGED << storeVars, gwVars, envVars, extractorRev, apiKey, netLog >>


\* what uploadAndSaveSOP (services/sopGeneratedStorage) may give back
UploadReplies == {"saved", "savedWithPdf", "failed", "throws"}

\* handleSaveToDB of the revision with F7, up to the await of uploadAndSaveSOP
HandleSaveToDBF7Click ==
  /\ variant = "f7"
  /\ finalSOP # Empty /\ ~isSaving
  /\ nextId <= MaxIds
  /\ Cardinality(pending) < MaxInFlight
  /\ IF selectedChapterId = "" \/ selectedObjective = Empty
       THEN /\ snackbar' = Snack("Ensure chapter and objective are selected and SOP generated.",
                                 "error")
            /\ UNCHANGED << isSaving, pending >>
       ELSE /\ isSaving' = TRUE
            /\ pending' = pending \cup
                 {[ op |-> "uploadAndSave", content |-> finalSOP,
                    chapterCode |-> selectedChapterCode,
                    objective |-> selectedObjective ]}
            /\ UNCHANGED snackbar
  /\ lastOp' = "saveF7Click"
  /\ UNCHANGED << variant, selectedChapterId, selectedChapterCode,
                  selectedObjective, oldSOPText, objectiveTitle, interpretation,
                  filteredContent, mergedContent, finalSOP, directEditContent,
                  currentVersion, sopVersions, showImprovementChat,
                  generatingSOP, aiImproving >>
  /\ UNCHANGED << storeVars, gwVars, envVars, stageVars, adVars >>

\* handleSaveToDB of the revision with F7, from the result of uploadAndSaveSOP
\* on; a successful result means the row is in nabh_generated_sops
HandleSaveToDBF7Done(req, reply) ==
  /\ req \in pending /\ req.op = "uploadAndSave"
  /\ pending' = pending \ {req}
  /\ IF reply \in {"saved", "savedWithPdf"}
       THEN /\ generatedSops' = generatedSops \cup
                 {GeneratedRow(nextId, req.chapterCode, req.objective, req.content)}
            /\ nextId' = nextId + 1
            /\ snackbar' = Snack(IF reply = "saved" THEN "SOP saved successfully!"
                                 ELSE "SOP saved successfully! PDF uploaded.", "success")
            /\ lastOp' = "saveF7Done"
       ELSE /\ snackbar' = Snack("Error saving SOP", "error")
            /\ lastOp' = "saveF7Failed"
            /\ UNCHANGED << generatedSops, nextId >>
  /\ isSaving' = FALSE
  /\ UNCHANGED << variant, selectedChapterId, selectedChapterCode,
                  selectedObjective, oldSOPText, objectiveTitle, interpretation,
                  filteredContent, mergedContent, finalSOP, directEditContent,
                  currentVersion, sopVersions, showImprovementChat,
                  generatingSOP, aiImproving >>
  /\ UNCHANGED << objectives, extractingOldSOP, filteringContent, existingSOP >>
  /\ UNCHANGED << chapterData, sopStore, levelStore, gwVars, envVars, adVars >>

\* rows written to nabh_sop_documents and nabh_generated_sops before this session
GeneratedBefore == GeneratedRow(1, <<"A", "A", "C">>, <<"4">>, <<"<p>", "s">>)

\* The page as mounted, over tables that hold one earlier row each, with the
\* revision of the extraction service that exports the three functions the
\* page imports.
InitPipeline ==
  /\ variant \in Variants
  /\ NoSelection /\ NoStageOutput /\ NoObjectiveText /\ FirstVersion /\ Idle
  /\ chapterData = {} /\ levelStore = {}
  /\ sopStore = {StoredBefore} /\ generatedSops = {GeneratedBefore} /\ nextId = 2
  /\ objectives = Empty /\ extractingOldSOP = FALSE /\ filteringContent = FALSE
  /\ existingSOP = {}
  /\ GwInit /\ EnvInit
  /\ extractorRev = "v2" /\ apiKey = TRUE /\ AdIdle

\* every action of the page that is not a save
NextNoSave ==
  \/ ChapterChange("ch1")
  \/ \E req \in pending : ChapterFetchDone(req, "rows")
  \/ \E req \in pending : LoadChapterObjectivesDone(req, TRUE)
  \/ HandleObjectiveChange(<<"4">>)
  \/ \E req \in pending : ExistingSOPDone(req, "ok")
  \/ HandleExtractOldSOPClick
  \/ \E req \in pending :
       HandleExtractOldSOPDone(req, "ok", TRUE, TRUE, "key", "ok", <<"x">>)
  \/ HandleRunFilterClick
  \/ \E req \in pending : HandleRunFilterDone(req, <<"x">>)
  \/ HandleMergeAll
  \/ HandleGenerateSOPClick("key")
  \/ \E req \in pending : HandleGenerateSOPDone(req, <<Doctype, "\n", "<p>", "x">>)
  \/ HandleStartImprovement
  \/ CloseChat
  \/ HandleSOPUpdate(<<"<p>", "x", "x">>, 1)
  \/ F7Change(<<"<p>", "z">>)
  \/ F7Blur
  \/ AIImproveClick
  \/ \E req \in pending : AIImproveDone(req, <<"<p>", "y">>)
  \/ HandleLoadStoredSOP(1, "ok", TRUE)

SpecNoSave == InitPipeline /\ [][NextNoSave]_vars


\* C14: in any run of the page's actions other than the saves (select,
\* extract, filter, merge, generate, chat improvement, AI improve, direct edit,
\* sync, load stored SOP) the stored SOP collections (nabh_chapter_data,
\* nabh_sop_documents, nabh_generated_sops) are never written: they keep the
\* rows they had when the page was mounted, whatever the version history holds.
C14_OnlySavePersists ==
  /\ chapterData = {}
  /\ sopStore = {StoredBefore}
  /\ generatedSops = {GeneratedBefore}

\* C14: an accepted chat improvement has added a version to the in-memory
\* history and the tables are as they were.
C14_Witness ==
  /\ lastOp = "sopUpdate" /\ Len(sopVersions) = 2
  /\ finalSOP = sopVersions[2].content
  /\ chapterData = {} /\ sopStore = {StoredBefore}


\* C15 as stated: analyzeDocument never throws, and whenever the endpoint
\* answered with a text that holds no fenced or bare JSON block, or whose
\* block does not parse, the analysis has the requested category as document
\* type and exactly one section, whose content is the response text.
C15_AnalyzeFallbackAsClaimed ==
  (adCall.fn = "analyzeDocument") =>
    /\ adResult.kind = "returned"
    /\ ( /\ adCall.key = "key"
         /\ adCall.answer # Throws
         /\ ~Parses(JsonMatch(AnswerText(adCall.answer))) )
       => /\ adResult.documentType = "stationery"
          /\ Len(adResult.sections) = 1
          /\ adResult.sections[1].content = AnswerText(adCall.answer)


(***************************************************************************)
(* The revision with F7 under interleavings of selection changes and       *)
(* requests in flight.                                                     *)
(***************************************************************************)
InitRace == InitPipeline /\ variant = "f7"

NextRace ==
  \/ \E id \in ChapterIds : ChapterChange(id)
  \/ \E req \in pending, reply \in {"rows", "empty"} : ChapterFetchDone(req, reply)
  \/ \E req \in pending : LoadChapterObjectivesDone(req, TRUE)
  \/ \E code \in ObjectiveEdits(objectives) : HandleObjectiveChange(code)
  \/ \E req \in pending : ExistingSOPDone(req, "ok")
  \/ HandleExtractOldSOPClick
  \/ \E req \in pending, fetched \in {"ok", "notOk"} :
       HandleExtractOldSOPDone(req, "ok", TRUE, TRUE, "key", fetched, <<"x">>)
  \/ HandleRunFilterClick
  \/ \E req \in pending : HandleRunFilterDone(req, <<"x">>)
  \/ HandleSaveToDBF7Click
  \/ \E req \in pending, reply \in {"saved", "failed"} : HandleSaveToDBF7Done(req, reply)

SpecRace == InitRace /\ [][NextRace]_vars


AAC == <<"A", "A", "C">>

\* C16 as stated: no late response is written into the page, so in every
\* state a documentation text in F1 is the one of the selected chapter, the
\* stored SOP found is the one of the selected chapter and objective, a final
\* SOP loaded from that row stands under its own objective, and a saved row
\* never holds the stored SOP of one objective under the codes of another.
C16_NoStaleResultAsClaimed ==
  /\ \A id \in ChapterIds : oldSOPText = Documentation(id) => selectedChapterId = id
  /\ \A r \in existingSOP :
       r.chapter_code = selectedChapterCode /\ r.objective_code = selectedObjective
  /\ finalSOP = GeneratedBefore.sop_html_content =>
       selectedChapterCode = AAC /\ selectedObjective = <<"4">>
  /\ \A r \in generatedSops :
       r.sop_html_content = GeneratedBefore.sop_html_content =>
         r.chapter_code = AAC /\ r.objective_code = <<"4">>

\* the requests in flight of one kind
InFlight(op) == { r \in pending : r.op = op }

\* C17 as stated: at most one extract, one filter and one save request is in
\* flight, and while one is in flight the flag that disables its control is
\* set.
C17_OneRequestPerControlAsClaimed ==
  /\ Cardinality(InFlight("extract")) <= 1
  /\ Cardinality(InFlight("filter")) <= 1
  /\ Cardinality(InFlight("uploadAndSave")) <= 1
  /\ InFlight("extract") # {} => extractingOldSOP
  /\ InFlight("filter") # {} => filteringContent
  /\ InFlight("uploadAndSave") # {} => isSaving


(***************************************************************************)
(* Saving over a backend that accepts every insert.                        *)
(***************************************************************************)
\* Either revision of the page with or without a chapter, an objective, a
\* title and a final SOP.
InitHealthy ==
  /\ variant \in Variants
  /\ \/ selectedChapterId = "" /\ selectedChapterCode = Empty
     \/ selectedChapterId = "ch1" /\ selectedChapterCode = <<"A", "A", "C">>
  /\ selectedObjective \in {Empty, <<"4">>}
  /\ objectiveTitle \in {Empty, <<"T">>} /\ interpretation = Empty
  /\ oldSOPText = Empty /\ filteredContent = Empty /\ mergedContent = Empty
  /\ FirstVersion /\ Idle
  /\ finalSOP \in Html \cup {Empty}
  /\ directEditContent = (IF variant = "f7" THEN finalSOP ELSE Empty)
  /\ chapterData = {} /\ levelStore = {}
  /\ \/ sopStore = {} /\ nextId = 1
     \/ sopStore = {StoredBefore} /\ nextId = 2
  /\ GwInit /\ EnvInit /\ StageInit /\ AdInit

NextHealthy ==
  \/ HandleSaveSOPToDatabase("ok", TRUE)
  \/ HandleSaveToDBClick
  \/ \E req \in pending : HandleSaveToDBDone(req, "ok", "ok", TRUE)
  \/ HandleSaveToDBF7Click
  \/ \E req \in pending, reply \in {"saved", "savedWithPdf"} :
       HandleSaveToDBF7Done(req, reply)

SpecHealthy == InitHealthy /\ [][NextHealthy]_vars

\* a save of either revision has run to its end
SaveEnded == lastOp \in {"saveSOPToDatabase", "saveToDBDone", "saveF7Done", "saveF7Failed"}

\* the SOP collections hold a record with the given HTML
Persisted(html) ==
  \/ \E r \in sopStore : r.extracted_content = html
  \/ \E r \in generatedSops : r.sop_html_content = html

\* C18 as stated: over a backend that accepts inserts, a save started with a
\* final SOP, a chapter and an objective with a title ends with a record whose
\* HTML is the final SOP in the SOP store and with a success notification,
\* never with an error notification.
C18_SaveReachesPersistedAsClaimed ==
  ( /\ SaveEnded
    /\ finalSOP # Empty /\ selectedChapterId # ""
    /\ selectedObjective # Empty /\ objectiveTitle # Empty ) =>
    /\ Persisted(finalSOP)
    /\ snackbar.severity = "success"


(***************************************************************************)
(* The stages extract, filter, merge and generate with every failure the   *)
(* services can report.                                                    *)
(***************************************************************************)
\* Either revision of the page with a chapter and an objective chosen, F1
\* empty or loaded, over a table that holds one earlier SOP of the chapter.
InitStage ==
  /\ variant \in Variants
  /\ selectedChapterId = "ch1" /\ selectedChapterCode = AAC
  /\ objectives = AAC /\ selectedObjective = <<"4">>
  /\ objectiveTitle = TitleOf(<<"4">>) /\ interpretation = InterpretationOf(<<"4">>)
  /\ oldSOPText \in {Empty, Documentation("ch1")}
  /\ filteredContent = Empty /\ mergedContent = Empty
  /\ finalSOP = Empty /\ directEditContent = Empty
  /\ FirstVersion /\ Idle
  /\ chapterData = {} /\ levelStore = {}
  /\ sopStore = {StoredBefore} /\ generatedSops = {} /\ nextId = 2
  /\ extractingOldSOP = FALSE /\ filteringContent = FALSE /\ existingSOP = {}
  /\ GwInit /\ EnvInit
  /\ extractorRev = "v2" /\ apiKey = TRUE /\ AdIdle

NextStage ==
  \/ HandleExtractOldSOPClick
  \/ \E req \in pending, outcome \in Backend, hasPdf \in BOOLEAN, k \in KeyLookups,
        fetched \in FetchOutcomes, answer \in TextAnswers :
       HandleExtractOldSOPDone(req, outcome, TRUE, hasPdf, k, fetched, answer)
  \/ HandleRunFilterClick
  \/ \E req \in pending, answer \in TextAnswers : HandleRunFilterDone(req, answer)
  \/ HandleMergeAll
  \/ \E k \in KeyLookups : HandleGenerateSOPClick(k)
  \/ \E req \in pending, answer \in GenAnswers \cup {ApiError, Throws} :
       HandleGenerateSOPDone(req, answer)

SpecStage == InitStage /\ [][NextStage]_vars

\* the stage that ended last called its adapter function, and the function
\* returned success:false
StageCallFailed ==
  /\ \/ lastOp = "extractDone" /\ adCall.fn = "extractTextFromPDFUrl"
     \/ lastOp \in {"filterDone", "filterFailed"}
     \/ lastOp \in {"generateDone", "generateFailed"}
  /\ adResult.kind = "returned" /\ ~adResult.success

\* C19 as stated: whenever the adapter call of an extraction, filter or
\* generate stage returned success:false with error E, the notification of
\* that stage has severity error and message exactly E.
C19_ErrorShownVerbatimAsClaimed ==
  StageCallFailed => snackbar = Snack(adResult.error, "error")

\* disabled= of the Extract, Run Filter and Generate SOP buttons
ExtractDisabled == selectedChapterId = "" \/ extractingOldSOP

FilterDisabled == filteringContent \/ oldSOPText = Empty \/ selectedObjective = Empty

GenerateDisabled == generatingSOP \/ mergedContent = Empty

\* C20: the step in which an extract, filter or generate request ends in a
\* failure (the service returned success:false or threw, or the stored SOPs
\* could not be loaded) leaves the outputs of the earlier stages as they were
\* (F1 for the filter; F1, title, interpretation, filtered and merged text
\* for the generation) and leaves the button of the failed stage enabled
\* whenever its inputs are still present, so the stage can be started again.
C20_FailureHaltsStageOnly ==
  [][ /\ ( \/ lastOp' = "extractFailed"
           \/ lastOp' = "extractDone" /\ ~adResult'.success ) =>
           /\ UNCHANGED << selectedChapterId, selectedChapterCode >>
           /\ ~ExtractDisabled'
      /\ lastOp' = "filterFailed" =>
           /\ UNCHANGED << oldSOPText, selectedObjective >>
           /\ (oldSOPText # Empty) => ~FilterDisabled'
      /\ lastOp' = "generateFailed" =>
           /\ UNCHANGED << oldSOPText, objectiveTitle, interpretation,
                           filteredContent, mergedContent >>
           /\ ~GenerateDisabled'
    ]_vars

\* C20: a generation has failed with the error of the service on screen, the
\* merged text and F1 are still there and the Generate SOP button is enabled.
C20_Witness ==
  /\ lastOp = "generateFailed" /\ snackbar.severity = "error"
  /\ adResult.kind = "returned" /\ ~adResult.success
  /\ mergedContent # Empty /\ oldSOPText # Empty
  /\ ~GenerateDisabled


\* the steps of one run of a stage, from the click to the end of the request
ExtractOps == {"extractClick", "extractDone", "extractDoneNoPdf", "extractFailed"}

FilterOps == {"filterClick", "filterDone", "filterFailed"}

\* C21: every step of a run of extract leaves the filtered text, the merged
\* text and the final SOP as they were, every step of a run of the filter
\* leaves F1, the merged text and the final SOP as they were, and a merge
\* leaves F1, the filtered text and the final SOP as they were, whether the
\* run ends in success or in failure.
C21_RerunKeepsLaterOutputs ==
  [][ /\ lastOp' \in ExtractOps =>
           UNCHANGED << filteredContent, mergedContent, finalSOP, directEditContent >>
      /\ lastOp' \in FilterOps =>
           UNCHANGED << oldSOPText, mergedContent, finalSOP, directEditContent >>
      /\ lastOp' = "mergeAll" =>
           UNCHANGED << oldSOPText, filteredContent, finalSOP, directEditContent >>
    ]_vars

\* C21: an extraction has been run again after a SOP was generated; the
\* merged text and the final SOP are still there.
C21_Witness ==
  /\ lastOp \in {"extractDone", "extractFailed"}
  /\ mergedContent # Empty /\ finalSOP # Empty


(***************************************************************************)
(* The guards of the stages, from the mounted page to the save.            *)
(***************************************************************************)
NextGuards ==
  \/ ChapterChange("ch1")
  \/ \E req \in pending, reply \in {"rows", "empty"} : ChapterFetchDone(req, reply)
  \/ \E req \in pending : LoadChapterObjectivesDone(req, TRUE)
  \/ HandleObjectiveChange(<<"4">>)
  \/ \E req \in pending : ExistingSOPDone(req, "ok")
  \/ HandleRunFilterClick
  \/ \E req \in pending, answer \in {<<"x">>, Empty} : HandleRunFilterDone(req, answer)
  \/ HandleMergeAll
  \/ HandleGenerateSOPClick("key")
  \/ \E req \in pending, answer \in {<<Doctype, "\n", "<p>", "x">>, Empty} :
       HandleGenerateSOPDone(req, answer)
  \/ HandleStartImprovement
  \/ HandleLoadStoredSOP(1, "ok", TRUE)
  \/ HandleSaveSOPToDatabase("ok", TRUE)
  \/ HandleSaveToDBClick
  \/ \E req \in pending : HandleSaveToDBDone(req, "ok", "ok", TRUE)
  \/ HandleSaveToDBF7Click
  \/ \E req \in pending : HandleSaveToDBF7Done(req, "saved")

SpecGuards == InitPipeline /\ [][NextGuards]_vars

\* the requests of one kind issued by the step
Issued(op) == { r \in pending' : r.op = op } \ pending

\* the fields of the pipeline
pipelineFields ==
  << oldSOPText, objectiveTitle, interpretation, filteredContent, mergedContent,
     finalSOP, directEditContent >>

\* C22: a filter request is issued only from a state with F1 non-empty and an
\* objective selected, a generate request only from a state with a merged
\* text, an improvement session starts only from a state with a final SOP,
\* a save request is issued only from a state with a final SOP and a chapter
\* and carries both; a save pressed without a chapter issues no
\* request and leaves the fields of the pipeline and the tables as they were.
C22_StageGuards ==
  [][ /\ Issued("filter") # {} => oldSOPText # Empty /\ selectedObjective # Empty
      /\ Issued("generate") # {} => mergedContent # Empty
      /\ (showImprovementChat' /\ ~showImprovementChat) => finalSOP # Empty
      /\ (Issued("saveToDB") # {} \/ Issued("uploadAndSave") # {}) =>
           finalSOP # Empty /\ selectedChapterId # ""
      /\ \A r \in Issued("saveToDB") :
           r.content = finalSOP /\ r.chapterId = selectedChapterId
      /\ \A r \in Issued("uploadAndSave") :
           r.content = finalSOP /\ r.chapterCode = selectedChapterCode
      /\ (lastOp' \in {"saveToDBClick", "saveF7Click", "saveSOPToDatabase"}
            /\ selectedChapterId = "") =>
           /\ pending' = pending
           /\ UNCHANGED << pipelineFields, sopStore, chapterData, generatedSops >>
    ]_vars

\* C22: Save was pressed with a final SOP and no chapter: an error is shown
\* and nothing is in flight.
C22_Witness ==
  /\ lastOp = "saveToDBClick" /\ selectedChapterId = "" /\ finalSOP # Empty
  /\ snackbar = Snack("Ensure chapter is selected and SOP generated.", "error")
  /\ pending = {}


\* C23: on the page with F7, right after a stored SOP was loaded by the
\* lookup of an objective change, after a successful generation and after an
\* update from the improvement chat, the F7 editor holds the final SOP; right
\* after a chapter change and after an objective change, whose lookup has not
\* answered yet, the F7 editor is empty.
C23_F7SyncPoints ==
  variant = "f7" =>
    /\ lastOp \in {"existingSOPFound", "generateDone", "sopUpdate"} =>
         directEditContent = finalSOP /\ finalSOP # Empty
    /\ lastOp \in {"chapterChange", "objectiveChange"} =>
         directEditContent = Empty /\ finalSOP = Empty

\* C23: the improvement chat has just replaced a generated SOP and the F7
\* editor shows the replacement.
C23_Witness ==
  /\ variant = "f7" /\ lastOp = "sopUpdate"
  /\ finalSOP = <<"<p>", "x", "x">> /\ directEditContent = finalSOP


\* C24 as stated: right after a chapter change, an objective change or a
\* successful generation the current version is 1.0 and the version history
\* holds no entry of another document, that is, every entry left in it holds
\* the final SOP now on the page.
C24_VersionOfCurrentDocumentAsClaimed ==
  lastOp \in {"chapterChange", "objectiveChange", "generateDone"} =>
    /\ currentVersion = <<"1", ".", "0">>
    /\ \A i \in 1..Len(sopVersions) : sopVersions[i].content = finalSOP


GenerateOps == {"generateClick", "generateDone", "generateFailed"}

\* C25 as stated: a re-run of extract, filter or generate that fails leaves
\* the previous output of the stage in place, so no step of a run of a stage,
\* from the click to its failure, turns a non-empty output of that stage
\* (oldSOPText, filteredContent, finalSOP) into an empty one.
C25_FailedRerunKeepsOutputAsClaimed ==
  [][ /\ (lastOp' \in ExtractOps /\ oldSOPText # Empty) => oldSOPText' # Empty
      /\ (lastOp' \in FilterOps /\ filteredContent # Empty) => filteredContent' # Empty
      /\ (lastOp' \in GenerateOps /\ finalSOP # Empty) => finalSOP' # Empty ]_vars


\* C26 as stated: an answer of the model without text never becomes a
\* generated SOP, so right after a successful generation the final SOP is more
\* than what the post-processing makes of an empty answer.
C26_EmptyAnswerNeverGeneratedAsClaimed ==
  lastOp = "generateDone" => finalSOP # PostProcess(extractorRev, Empty)


\* C27 as stated: right after a run of extract has ended, oldSOPText is
\* non-empty only if a PDF extraction returned success with a non-empty text.
C27_RawTextIsExtractedTextAsClaimed ==
  (lastOp \in {"extractDone", "extractDoneNoPdf", "extractFailed"} /\ oldSOPText # Empty) =>
    /\ lastOp = "extractDone"
    /\ adResult.kind = "returned" /\ adResult.success /\ adResult.text # Empty


\* C28 as stated: the combined save writes both records or none, so every
\* final_sop row of nabh_chapter_data has a row of nabh_sop_documents written
\* in this session with the same content.
C28_CombinedSaveAllOrNothingAsClaimed ==
  \A d \in chapterData :
    \E r \in sopStore \ {StoredBefore} : r.extracted_content = d.content


(***************************************************************************)
(* Editing the final SOP next to the F7 editor.                            *)
(***************************************************************************)
\* the Code textarea (onChange) and the Text Edit frame (blur of its body):
\* both call setFinalSOP with the edited text and nothing else
HandleFinalSOPEdit(text) ==
  /\ finalSOP # Empty /\ text # finalSOP
  /\ finalSOP' = text
  /\ lastOp' = "finalSOPEdit"
  /\ UNCHANGED << variant, selectedChapterId, selectedChapterCode,
                  selectedObjective, oldSOPText, objectiveTitle, interpretation,
                  filteredContent, mergedContent, directEditContent,
                  currentVersion, sopVersions, showImprovementChat, isSaving,
                  generatingSOP, aiImproving, snackbar, pending >>
  /\ UNCHANGED << storeVars, gwVars, envVars, stageVars, adVars >>

NextEdits ==
  \/ \E text \in EditTexts : HandleFinalSOPEdit(text)
  \/ \E text \in EditTexts : F7Change(text)
  \/ F7Blur
  \/ AIImproveClick
  \/ \E req \in pending, answer \in ImproveAnswers \cup {Throws} :
       AIImproveDone(req, answer)

InitEdits == InitGenerated /\ variant = "f7"

SpecEdits == InitEdits /\ [][NextEdits]_vars

\* C29 as stated: the answer of AI Improve is applied only while the F7
\* editor still holds the text the request was made from, and the blur of F7
\* that directly follows an edit of the final SOP in the Code textarea or the
\* Text Edit frame leaves that edit in place.
C29_NewerEditsKeptAsClaimed ==
  [][ /\ lastOp' = "aiImproveApplied" =>
           \A req \in pending \ pending' : req.content = directEditContent
      /\ (lastOp = "finalSOPEdit" /\ lastOp' = "f7Blur") => finalSOP' = finalSOP ]_vars


(***************************************************************************)
(* DocumentLevelsPage: tabs, table and pagination.                         *)
(***************************************************************************)
\* rows of level 1 in nabh_document_levels when the page is opened
MaxDocs == 6

\* rowsPerPageOptions of the TablePagination
RowsPerPageOptions == {5, 10, 25}

\* the rows in the order the query gives them: created_at descending, the
\* newest row, which has the highest id, first
RECURSIVE InOrder(_)
InOrder(rows) ==
  IF rows = {} THEN << >>
  ELSE LET first == CHOOSE r \in rows : \A q \in rows : r.id >= q.id
       IN  <<first>> \o InOrder(rows \ {first})

\* documents.slice(page * rowsPerPage, page * rowsPerPage + rowsPerPage)
Slice(docs, p, n) ==
  { docs[i] : i \in { j \in 1..Len(docs) : p * n < j /\ j <= p * n + n } }

\* the fields of RecentSOPsPage, which is not on screen
sopPageFields ==
  << variant, selectedChapterId, selectedChapterCode, selectedObjective,
     oldSOPText, objectiveTitle, interpretation, filteredContent, mergedContent,
     finalSOP, directEditContent, currentVersion, sopVersions,
     showImprovementChat, isSaving, generatingSOP, aiImproving >>

elsewhere ==
  << sopPageFields, chapterData, sopStore, gwVars, adVars, stageVars, clock, timeZone >>

\* loadDocuments() up to its await, for the level of the render it closes over
LoadDocumentsRequest(level) == [op |-> "loadDocuments", level |-> level]

\* Tabs onChange and the effect on [tabValue]: loadDocuments(); setPage(0)
TabChange(newValue) ==
  /\ newValue # tabValue
  /\ Cardinality(pending) < MaxInFlight
  /\ tabValue' = newValue
  /\ page' = 0
  /\ isLoading' = TRUE
  /\ pending' = pending \cup {LoadDocumentsRequest(newValue + 1)}
  /\ lastOp' = "tabChange"
  /\ UNCHANGED << documents, rowsPerPage, snackbar, levelStore, nextId, elsewhere >>

\* loadDocuments from the answer of loadDocumentsByLevel on
LoadDocumentsDone(req, outcome, inst) ==
  /\ req \in pending /\ req.op = "loadDocuments"
  /\ pending' = pending \ {req}
  /\ LET result == LoadDocumentsByLevel(levelStore, req.level, outcome, inst).result
     IN  documents' = IF result.success /\ result.hasData
                        THEN InOrder(result.data) ELSE << >>
  /\ isLoading' = FALSE
  /\ lastOp' = "loadDocumentsDone"
  /\ UNCHANGED << tabValue, page, rowsPerPage, snackbar, levelStore, nextId, elsewhere >>

\* handleChangePage; the pagination control offers the previous page and, while
\* rows follow the current page, the next one
HandleChangePage(newPage) ==
  /\ \/ newPage = page - 1 /\ page > 0
     \/ newPage = page + 1 /\ (page + 1) * rowsPerPage < Len(documents)
  /\ page' = newPage
  /\ lastOp' = "changePage"
  /\ UNCHANGED << tabValue, documents, isLoading, rowsPerPage, snackbar, pending,
                  levelStore, nextId, elsewhere >>

\* handleChangeRowsPerPage
HandleChangeRowsPerPage(value) ==
  /\ value # rowsPerPage
  /\ rowsPerPage' = value
  /\ page' = 0
  /\ lastOp' = "changeRowsPerPage"
  /\ UNCHANGED << tabValue, documents, isLoading, snackbar, pending,
                  levelStore, nextId, elsewhere >>

\* handleDelete of a row of the table, confirmed, up to the await
HandleDeleteClick(doc) ==
  /\ ~isLoading /\ doc \in Slice(documents, page, rowsPerPage)
  /\ Cardinality(pending) < MaxInFlight
  /\ pending' = pending \cup {[op |-> "deleteDocument", id |-> doc.id, level |-> tabValue + 1]}
  /\ lastOp' = "deleteClick"
  /\ UNCHANGED << levelVars, snackbar, levelStore, nextId, elsewhere >>

\* handleDelete from the answer of deleteDocument on
HandleDeleteDone(req, outcome, inst) ==
  /\ req \in pending /\ req.op = "deleteDocument"
  /\ LET reply == DeleteDocument(levelStore, req.id, outcome, inst)
     IN  /\ levelStore' = reply.rows
         /\ IF reply.result.success
              THEN /\ snackbar' = Snack("Document deleted successfully", "success")
                   /\ isLoading' = TRUE
                   /\ pending' = (pending \ {req}) \cup {LoadDocumentsRequest(req.level)}
              ELSE /\ snackbar' = Snack(IF reply.result.error # None
                                          THEN reply.result.error
                                          ELSE "Failed to delete document", "error")
                   /\ pending' = pending \ {req}
                   /\ UNCHANGED isLoading
  /\ lastOp' = "deleteDone"
  /\ UNCHANGED << tabValue, documents, page, rowsPerPage, nextId, elsewhere >>

\* handleSave of the add dialog with a title, up to the await
HandleSaveClick ==
  /\ ~isLoading /\ nextId <= MaxDocs + 1
  /\ Cardinality(pending) < MaxInFlight
  /\ pending' = pending \cup {[op |-> "saveDocument", level |-> tabValue + 1]}
  /\ lastOp' = "saveClick"
  /\ UNCHANGED << levelVars, snackbar, levelStore, nextId, elsewhere >>

\* handleSave from the answer of saveDocument on
HandleSaveDone(req, outcome, inst) ==
  /\ req \in pending /\ req.op = "saveDocument"
  /\ LET reply == SaveDocument(levelStore, LevelRow(nextId, req.level, <<"D">>, "Active"),
                               outcome, inst)
     IN  /\ levelStore' = reply.rows
         /\ IF reply.result.success
              THEN /\ snackbar' = Snack("Document added successfully", "success")
                   /\ isLoading' = TRUE
                   /\ nextId' = nextId + 1
                   /\ pending' = (pending \ {req}) \cup {LoadDocumentsRequest(req.level)}
              ELSE /\ snackbar' = Snack(IF reply.result.error # None
                                          THEN reply.result.error
                                          ELSE "Failed to add document", "error")
                   /\ pending' = pending \ {req}
                   /\ UNCHANGED << isLoading, nextId >>
  /\ lastOp' = "saveDone"
  /\ UNCHANGED << tabValue, documents, page, rowsPerPage, elsewhere >>

\* The page just mounted on the first tab, its first load in flight, with
\* MaxDocs rows of level 1 in the table.
InitLevels ==
  /\ variant = "legacy"
  /\ NoSelection /\ NoStageOutput /\ NoObjectiveText /\ FirstVersion
  /\ isSaving = FALSE /\ generatingSOP = FALSE /\ aiImproving = FALSE
  /\ snackbar = Snack("", "success") /\ lastOp = None
  /\ pending = {LoadDocumentsRequest(1)}
  /\ chapterData = {} /\ sopStore = {}
  /\ levelStore = { LevelRow(i, 1, <<"D">>, "Active") : i \in 1..MaxDocs }
  /\ nextId = MaxDocs + 1
  /\ GwInit /\ StageInit /\ AdInit
  /\ clock = 500 * TicksPerDay /\ timeZone = "Asia/Kolkata"
  /\ tabValue = 0 /\ documents = << >> /\ isLoading = TRUE
  /\ page = 0 /\ rowsPerPage = 10

NextLevels ==
  \/ \E newValue \in {0, 1} : TabChange(newValue)
  \/ \E req \in pending, outcome \in {"ok", "rejects"} : LoadDocumentsDone(req, outcome, TRUE)
  \/ \E newPage \in 0..MaxDocs : HandleChangePage(newPage)
  \/ \E value \in RowsPerPageOptions : HandleChangeRowsPerPage(value)
  \/ \E i \in {1, Len(documents)} \cap DOMAIN documents : HandleDeleteClick(documents[i])
  \/ \E req \in pending, outcome \in {"ok", "rejects"} : HandleDeleteDone(req, outcome, TRUE)
  \/ HandleSaveClick
  \/ \E req \in pending, outcome \in {"ok", "rejects"} : HandleSaveDone(req, outcome, TRUE)

SpecLevels == InitLevels /\ [][NextLevels]_vars

\* C30 as stated: once no request of the page is in flight, the list of
\* documents is empty or the current page starts inside it.
C30_PageInRangeAsClaimed ==
  pending = {} => (documents = << >> \/ page * rowsPerPage < Len(documents))

====
